---- MODULE Spec2Model ----
(***************************************************************************)
(* Porytiles tileset compiler: normalize -> color index -> color sets ->   *)
(* palette assignment (backtracking) -> palette materialization -> tile    *)
(* assignment, in PRIMARY and SECONDARY mode (src/src/cli_parser.cpp,      *)
(* the compiler part, lines 657-1262).                                     *)
(*                                                                         *)
(* Arrays (std::array) are functions over 0..n-1, as in the source;        *)
(* vectors (std::vector) are sequences, element i of the source being      *)
(* element i+1 of the sequence (see At).  A ColorSet (std::bitset<240>) is *)
(* the set of its set bit positions.  An unordered_map is a function       *)
(* whose DOMAIN is its key set.  A thrown exception is a non-empty `err'   *)
(* field in the result of the operator that models the throwing function.  *)
(***************************************************************************)
EXTENDS Integers, Sequences, FiniteSets, TLC

(***************************************************************************)
(* Sizes.  The program's tile is 8x8 and its palette has 16 slots; the     *)
(* model keeps the code's arithmetic and scales the two sizes down.        *)
(***************************************************************************)
TILE_SIDE_LENGTH == 2
PAL_SIZE == 3
TILE_NUM_PIX == TILE_SIDE_LENGTH * TILE_SIDE_LENGTH

ALPHA_TRANSPARENT == 0
ALPHA_OPAQUE == 255

RGBA32(r, g, b, a) == [red |-> r, green |-> g, blue |-> b, alpha |-> a]

RGBA_BLACK == RGBA32(0, 0, 0, 255)
RGBA_RED == RGBA32(255, 0, 0, 255)
RGBA_GREEN == RGBA32(0, 255, 0, 255)
RGBA_BLUE == RGBA32(0, 0, 255, 255)
RGBA_YELLOW == RGBA32(255, 255, 0, 255)
RGBA_MAGENTA == RGBA32(255, 0, 255, 255)
RGBA_CYAN == RGBA32(0, 255, 255, 255)
RGBA_WHITE == RGBA32(255, 255, 255, 255)
\* the pixel the tests use for an alpha-transparent pixel
RGBA_CLEAR == RGBA32(0, 0, 0, ALPHA_TRANSPARENT)
\* an opaque red that differs from RGBA_RED only in the bits BGR15 drops
RGBA_RED_LOW == RGBA32(250, 0, 0, 255)
\* the pixel of the "invalid alpha value: 12" test
RGBA_BAD_ALPHA == RGBA32(0, 0, 0, 12)

At(vec, i) == vec[i + 1]

\* 8-bit channels to 5-bit channels, packed blue | green | red
rgbaToBgr(rgba) ==
    ((rgba.blue \div 8) * 1024) + ((rgba.green \div 8) * 32) + (rgba.red \div 8)

(***************************************************************************)
(* NormalizedPalette {size, colors[PAL_SIZE]} and NormalizedTile           *)
(* {pixels[TILE_NUM_PIX], palette, hFlip, vFlip}.                          *)
(***************************************************************************)
NormalizedTileInit(transparencyColor) ==
    [pixels  |-> [i \in 0..(TILE_NUM_PIX - 1) |-> 0],
     palette |-> [size   |-> 1,
                  colors |-> [s \in 0..(PAL_SIZE - 1) |->
                                 IF s = 0 THEN rgbaToBgr(transparencyColor) ELSE 0]],
     hFlip   |-> FALSE,
     vFlip   |-> FALSE]

\* a search that finds nothing
FindNothingInPalette(palette, bgr) == palette.size

\* std::find over colors[1 .. size): the first position holding bgr, or size
FindInPalette(palette, bgr) ==
    LET hits == {s \in 1..(palette.size - 1) : palette.colors[s] = bgr}
    IN  IF hits = {} THEN palette.size
        ELSE CHOOSE s \in hits : \A u \in hits : s <= u

\* insertRGBA: the palette after the call, the returned index, the exception
insertRGBA(transparencyColor, palette, rgba) ==
    IF rgba.alpha = ALPHA_TRANSPARENT \/ rgba = transparencyColor
    THEN [palette |-> palette, index |-> 0, err |-> ""]
    ELSE IF rgba.alpha = ALPHA_OPAQUE
    THEN LET bgr == rgbaToBgr(rgba)
             bgrPosInPalette == FindInPalette(palette, bgr)
         IN  IF bgrPosInPalette = palette.size
             THEN IF palette.size = PAL_SIZE
                  THEN [palette |-> palette, index |-> 0,
                        err |-> "too many unique colors in tile"]
                  ELSE [palette |-> [size   |-> palette.size + 1,
                                     colors |-> [palette.colors EXCEPT
                                                   ![palette.size] = bgr]],
                        index |-> bgrPosInPalette, err |-> ""]
             ELSE [palette |-> palette, index |-> bgrPosInPalette, err |-> ""]
    ELSE [palette |-> palette, index |-> 0, err |-> "invalid alpha value"]

\* RGBATile::getPixel(row, col) of a row-major pixel array
getPixel(rgba, row, col) == rgba[row * TILE_SIDE_LENGTH + col]

\* the loop of candidate() from pixel i on; acc = [tile, err]
RECURSIVE candidateLoop(_, _, _, _, _, _)
candidateLoop(transparencyColor, rgba, hFlip, vFlip, i, acc) ==
    IF i = TILE_NUM_PIX \/ acc.err # "" THEN acc
    ELSE LET row == i \div TILE_SIDE_LENGTH
             col == i % TILE_SIDE_LENGTH
             rowWithFlip == IF vFlip THEN TILE_SIDE_LENGTH - 1 - row ELSE row
             colWithFlip == IF hFlip THEN TILE_SIDE_LENGTH - 1 - col ELSE col
             ins == insertRGBA(transparencyColor, acc.tile.palette,
                               getPixel(rgba, rowWithFlip, colWithFlip))
         IN  candidateLoop(transparencyColor, rgba, hFlip, vFlip, i + 1,
                 [tile |-> [acc.tile EXCEPT !.palette = ins.palette,
                                            !.pixels[i] = ins.index],
                  err  |-> ins.err])

candidate(transparencyColor, rgba, hFlip, vFlip) ==
    candidateLoop(transparencyColor, rgba, hFlip, vFlip, 0,
        [tile |-> [NormalizedTileInit(transparencyColor) EXCEPT
                       !.hFlip = hFlip, !.vFlip = vFlip],
         err  |-> ""])

\* NormalizedTile::transparent(): the pixel buffer is all zero
transparent(tile) == \A i \in 0..(TILE_NUM_PIX - 1) : tile.pixels[i] = 0

\* the order of two pixel buffers turned around
PixelsGreater(p1, p2) ==
    \E i \in 0..(TILE_NUM_PIX - 1) :
        /\ p1[i] > p2[i]
        /\ \A j \in 0..(i - 1) : p1[j] = p2[j]

\* std::array operator< : lexicographic order of two pixel buffers
PixelsLess(p1, p2) ==
    \E i \in 0..(TILE_NUM_PIX - 1) :
        /\ p1[i] < p2[i]
        /\ \A j \in 0..(i - 1) : p1[j] = p2[j]

\* a selection that takes the last candidate
LastElement(cands) == cands[Len(cands)]

\* std::min_element: the first element no other element is less than
MinElement(cands) ==
    LET first == CHOOSE k \in 1..Len(cands) :
                    /\ \A j \in 1..Len(cands) :
                          ~PixelsLess(cands[j].pixels, cands[k].pixels)
                    /\ \A j \in 1..(k - 1) :
                          PixelsLess(cands[k].pixels, cands[j].pixels)
    IN  cands[first]

\* normalize: [tile, err]; the first candidate that throws ends the call
normalize(transparencyColor, rgba) ==
    LET noFlipsTile == candidate(transparencyColor, rgba, FALSE, FALSE)
    IN  IF noFlipsTile.err # "" THEN noFlipsTile
        ELSE IF transparent(noFlipsTile.tile) THEN noFlipsTile
        ELSE LET hFlipTile == candidate(transparencyColor, rgba, TRUE, FALSE)
                 vFlipTile == candidate(transparencyColor, rgba, FALSE, TRUE)
                 bothFlipsTile == candidate(transparencyColor, rgba, TRUE, TRUE)
             IN  IF hFlipTile.err # "" THEN hFlipTile
                 ELSE IF vFlipTile.err # "" THEN vFlipTile
                 ELSE IF bothFlipsTile.err # "" THEN bothFlipsTile
                 ELSE [tile |-> MinElement(<<noFlipsTile.tile, hFlipTile.tile,
                                             vFlipTile.tile, bothFlipsTile.tile>>),
                       err  |-> ""]

\* normalizeDecompTiles: [tiles, err], tiles a vector of (index, tile) pairs
RECURSIVE normalizeDecompTilesLoop(_, _, _, _)
normalizeDecompTilesLoop(transparencyColor, tiles, k, acc) ==
    IF k > Len(tiles) \/ acc.err # "" THEN acc
    ELSE LET n == normalize(transparencyColor, tiles[k])
         IN  normalizeDecompTilesLoop(transparencyColor, tiles, k + 1,
                 IF n.err # "" THEN [tiles |-> acc.tiles, err |-> n.err]
                 ELSE [tiles |-> Append(acc.tiles, [index |-> k - 1, tile |-> n.tile]),
                       err   |-> ""])

normalizeDecompTiles(transparencyColor, decompiledTileset) ==
    normalizeDecompTilesLoop(transparencyColor, decompiledTileset, 1,
                             [tiles |-> <<>>, err |-> ""])

(***************************************************************************)
(* Color index.                                                            *)
(***************************************************************************)
EmptyMap == [c \in {} |-> 0]

\* the two loops of buildColorIndexMaps over tile k, palette slot i;
\* acc = [colorIndexes, indexesToColors, colorIndex]
RECURSIVE buildColorIndexLoop(_, _, _, _)
buildColorIndexLoop(normalizedTiles, k, i, acc) ==
    IF k > Len(normalizedTiles) THEN acc
    ELSE IF i >= normalizedTiles[k].tile.palette.size
    THEN buildColorIndexLoop(normalizedTiles, k + 1, 1, acc)
    ELSE LET color == normalizedTiles[k].tile.palette.colors[i]
             inserted == color \notin DOMAIN acc.colorIndexes
         IN  buildColorIndexLoop(normalizedTiles, k, i + 1,
                 IF inserted
                 THEN [colorIndexes    |-> acc.colorIndexes @@ (color :> acc.colorIndex),
                       indexesToColors |-> acc.indexesToColors @@ (acc.colorIndex :> color),
                       colorIndex      |-> acc.colorIndex + 1]
                 ELSE acc)

\* a seeding that numbers the colors of the primary map as the loop meets them
seedColorRenumbered(primaryIndexMap, color, acc) ==
    LET index == Cardinality(DOMAIN acc.colorIndexes)
    IN  IF color \in DOMAIN acc.colorIndexes
        THEN [acc EXCEPT !.err = "double inserted a color from primary set"]
        ELSE [acc EXCEPT !.colorIndexes = @ @@ (color :> index),
                         !.indexesToColors = IF index \in DOMAIN @ THEN @
                                             ELSE @ @@ (index :> color)]

\* the body of the loop over primaryIndexMap: {color, index} is inserted into
\* colorIndexes, {index, color} into indexesToColors; an insert of a key that
\* is there leaves the map as it is
seedColor(primaryIndexMap, color, acc) ==
    LET index == primaryIndexMap[color]
    IN  IF color \in DOMAIN acc.colorIndexes
        THEN [acc EXCEPT !.err = "double inserted a color from primary set"]
        ELSE [acc EXCEPT !.colorIndexes = @ @@ (color :> index),
                         !.indexesToColors = IF index \in DOMAIN @ THEN @
                                             ELSE @ @@ (index :> color)]

\* the loop over primaryIndexMap, an unordered_map, visiting its colors in
\* the order the map's buckets give; acc = [colorIndexes, indexesToColors, err]
RECURSIVE seedLoop(_, _, _, _)
seedLoop(primaryIndexMap, order, n, acc) ==
    IF n > Len(order) \/ acc.err # "" THEN acc
    ELSE seedLoop(primaryIndexMap, order, n + 1, seedColor(primaryIndexMap, order[n], acc))

\* buildColorIndexMaps numbering the new colors from one past the primary map's size
buildColorIndexMapsSkippingOne(ctx, normalizedTiles, primaryIndexMap, order) ==
    LET seeded == seedLoop(primaryIndexMap, order, 1,
                           [colorIndexes |-> EmptyMap, indexesToColors |-> EmptyMap,
                            err |-> ""])
        r == buildColorIndexLoop(normalizedTiles, 1, 1,
                 [colorIndexes    |-> seeded.colorIndexes,
                  indexesToColors |-> seeded.indexesToColors,
                  colorIndex      |-> Cardinality(DOMAIN primaryIndexMap) + 1])
    IN  IF seeded.err # ""
        THEN [colorIndexes |-> EmptyMap, indexesToColors |-> EmptyMap, err |-> seeded.err]
        ELSE IF r.colorIndex > (PAL_SIZE - 1) * ctx.fieldmapConfig.numPalettesInPrimary
        THEN [colorIndexes |-> EmptyMap, indexesToColors |-> EmptyMap,
              err |-> "too many unique colors"]
        ELSE [colorIndexes |-> r.colorIndexes, indexesToColors |-> r.indexesToColors,
              err |-> ""]

\* buildColorIndexMaps: [colorIndexes, indexesToColors, err]; order is the
\* order in which the range-for visits the colors of primaryIndexMap
buildColorIndexMaps(ctx, normalizedTiles, primaryIndexMap, order) ==
    LET seeded == seedLoop(primaryIndexMap, order, 1,
                           [colorIndexes |-> EmptyMap, indexesToColors |-> EmptyMap,
                            err |-> ""])
        r == buildColorIndexLoop(normalizedTiles, 1, 1,
                 [colorIndexes    |-> seeded.colorIndexes,
                  indexesToColors |-> seeded.indexesToColors,
                  colorIndex      |-> Cardinality(DOMAIN primaryIndexMap)])
    IN  IF seeded.err # ""
        THEN [colorIndexes |-> EmptyMap, indexesToColors |-> EmptyMap, err |-> seeded.err]
        ELSE IF r.colorIndex > (PAL_SIZE - 1) * ctx.fieldmapConfig.numPalettesInPrimary
        THEN [colorIndexes |-> EmptyMap, indexesToColors |-> EmptyMap,
              err |-> "too many unique colors"]
        ELSE [colorIndexes |-> r.colorIndexes, indexesToColors |-> r.indexesToColors,
              err |-> ""]

\* the orders in which an unordered_map may give its keys: the keys by rising
\* value, that order begun at any key, and each of these backwards
IterationOrders(map) ==
    LET n == Cardinality(DOMAIN map)
        rising == [i \in 1..n |->
                      CHOOSE k \in DOMAIN map :
                          Cardinality({j \in DOMAIN map : map[j] < map[k]}) = i - 1]
    IN  IF n = 0 THEN {<<>>}
        ELSE UNION {{[i \in 1..n |-> rising[((i - 1 + from) % n) + 1]],
                     [i \in 1..n |-> rising[((n - i + from) % n) + 1]]} :
                        from \in 0..(n - 1)}

\* toColorSet: the bits colorIndexMap gives the palette's slots 1 .. size-1
toColorSet(colorIndexMap, palette) ==
    {colorIndexMap[palette.colors[i]] : i \in 1..(palette.size - 1)}

Contains(vec, e) == \E k \in 1..Len(vec) : vec[k] = e

\* matchNormalizedWithColorSets; acc = [withColorSets, colorSets]
RECURSIVE matchLoop(_, _, _, _)
matchLoop(colorIndexMap, indexedNormalizedTiles, k, acc) ==
    IF k > Len(indexedNormalizedTiles) THEN acc
    ELSE LET t == indexedNormalizedTiles[k]
             colorSet == toColorSet(colorIndexMap, t.tile.palette)
         IN  matchLoop(colorIndexMap, indexedNormalizedTiles, k + 1,
                 [withColorSets |-> Append(acc.withColorSets,
                                     [index |-> t.index, tile |-> t.tile,
                                      colorSet |-> colorSet]),
                  colorSets |-> IF Contains(acc.colorSets, colorSet)
                                THEN acc.colorSets
                                ELSE Append(acc.colorSets, colorSet)])

matchNormalizedWithColorSets(colorIndexMap, indexedNormalizedTiles) ==
    matchLoop(colorIndexMap, indexedNormalizedTiles, 1,
              [withColorSets |-> <<>>, colorSets |-> <<>>])

(***************************************************************************)
(* Palette assignment.                                                     *)
(***************************************************************************)
count(colorSet) == Cardinality(colorSet)

\* std::stable_sort, less[j][k] telling whether element j is less than element
\* k: each element goes to the rank given by the elements that are less than
\* it and the equal elements that stand before it
StableSort(less, vec) ==
    LET Rank(k) == Cardinality({j \in 1..Len(vec) :
                        \/ less[j][k]
                        \/ (~less[k][j] /\ j < k)})
    IN  [r \in 1..Len(vec) |-> vec[CHOOSE k \in 1..Len(vec) : Rank(k) = r - 1]]

\* a comparator that sorts the larger color sets to the front
CountGreater(cs1, cs2) == count(cs1) > count(cs2)

\* the comparator of the stable_sort in compile (unassigned color sets)
CountLess(cs1, cs2) == count(cs1) < count(cs2)

\* the stable_sort of compile: the unassigned color sets by count
SortUnassigned(colorSets) ==
    StableSort([j \in 1..Len(colorSets) |->
                   [k \in 1..Len(colorSets) |-> CountLess(colorSets[j], colorSets[k])]],
               colorSets)

\* the comparator of the stable_sort in assign (hardware palettes)
IntersectLess(toAssign, pal1, pal2) ==
    LET pal1IntersectSize == count(pal1 \cap toAssign)
        pal2IntersectSize == count(pal2 \cap toAssign)
    IN  IF pal1IntersectSize = pal2IntersectSize
        THEN count(pal1) < count(pal2)
        ELSE pal1IntersectSize > pal2IntersectSize

\* the hardware palettes left in the order the search reached them
KeepHardwarePalettes(hardwarePalettes, toAssign) == hardwarePalettes

SortHardwarePalettes(hardwarePalettes, toAssign) ==
    StableSort([j \in 1..Len(hardwarePalettes) |->
                   [k \in 1..Len(hardwarePalettes) |->
                       IntersectLess(toAssign, hardwarePalettes[j], hardwarePalettes[k])]],
               hardwarePalettes)

Back(vec) == vec[Len(vec)]
PopBack(vec) == SubSeq(vec, 1, Len(vec) - 1)

\* a reuse test that a primary palette sharing one color passes
CoveredByOverlappingPalette(palette, toAssign) == toAssign \cap palette # {}

\* a reuse test that no primary palette passes
CoveredByNoPalette(palette, toAssign) == FALSE

\* a reuse test that every primary palette passes
CoveredByAnyPalette(palette, toAssign) == count(palette \cup toAssign) >= count(palette)

\* the test of the primary-reuse branch
CoveredByPalette(palette, toAssign) == count(palette \cup toAssign) = count(palette)

\* a skip test that keeps one more slot free
PaletteTooFullOffByOne(palette, toAssign) == count(palette \cup toAssign) >= PAL_SIZE - 1

\* a skip test that lets every palette take the color set
PaletteNeverTooFull(palette, toAssign) == FALSE

\* the test that skips a hardware palette
PaletteTooFull(palette, toAssign) == count(palette \cup toAssign) > PAL_SIZE - 1

\* a limit test that never stops the recursion
RecurseLimitNeverExceeded(g, maxRecurseCount) == FALSE

\* the test on gRecurseCount, after its increment to g
RecurseLimitExceeded(g, maxRecurseCount) == g > maxRecurseCount

\* a root call that goes on counting from where the last compile stopped
KeepRecurseCount(g) == g

\* compile, line 1190: gRecurseCount = 0 before the root call of assign
ResetRecurseCount(g) == 0

\* the result of a branch that succeeded, with the color set the invocation
\* took as toAssign put before those the invocations below it took
Placed(toAssign, r) == [r EXCEPT !.placed = <<toAssign>> \o @]

NoSolution(g) ==
    [ret |-> FALSE, err |-> "", solution |-> <<>>, gRecurseCount |-> g, placed |-> <<>>]

(***************************************************************************)
(* assign(maxRecurseCount, state, solution, primaryPalettes), called with  *)
(* gRecurseCount = g and an empty solution.  The result holds the return   *)
(* value, the exception, what the call appended to solution and the value  *)
(* it leaves in gRecurseCount.  assignPrimaryLoop and assignHardwareLoop   *)
(* are the two for loops from index i on.                                  *)
(***************************************************************************)
RECURSIVE assign(_, _, _, _)
RECURSIVE assignPrimaryLoop(_, _, _, _, _)
RECURSIVE assignHardwareLoop(_, _, _, _, _)

assign(maxRecurseCount, state, primaryPalettes, g) ==
    IF RecurseLimitExceeded(g + 1, maxRecurseCount)
    THEN [ret |-> FALSE, err |-> "too many assignment recurses",
          solution |-> <<>>, gRecurseCount |-> g + 1, placed |-> <<>>]
    ELSE IF state.unassigned = <<>>
    THEN [ret |-> TRUE, err |-> "", solution |-> state.hardwarePalettes,
          gRecurseCount |-> g + 1, placed |-> <<>>]
    ELSE LET toAssign == Back(state.unassigned)
             viaPrimary == assignPrimaryLoop(maxRecurseCount, state, primaryPalettes,
                                             0, g + 1)
         IN  IF viaPrimary.ret \/ viaPrimary.err # "" THEN viaPrimary
             ELSE assignHardwareLoop(maxRecurseCount,
                      [state EXCEPT !.hardwarePalettes =
                           SortHardwarePalettes(state.hardwarePalettes, toAssign)],
                      primaryPalettes, 0, viaPrimary.gRecurseCount)

assignPrimaryLoop(maxRecurseCount, state, primaryPalettes, i, g) ==
    IF i >= Len(primaryPalettes) THEN NoSolution(g)
    ELSE IF CoveredByPalette(At(primaryPalettes, i), Back(state.unassigned))
    THEN LET updatedState == [hardwarePalettes |-> state.hardwarePalettes,
                              unassigned       |-> PopBack(state.unassigned)]
             r == assign(maxRecurseCount, updatedState, primaryPalettes, g)
         IN  IF r.ret THEN Placed(Back(state.unassigned), r)
             ELSE IF r.err # "" THEN r
             ELSE assignPrimaryLoop(maxRecurseCount, state, primaryPalettes, i + 1,
                                    r.gRecurseCount)
    ELSE assignPrimaryLoop(maxRecurseCount, state, primaryPalettes, i + 1, g)

assignHardwareLoop(maxRecurseCount, state, primaryPalettes, i, g) ==
    IF i >= Len(state.hardwarePalettes) THEN NoSolution(g)
    ELSE IF PaletteTooFull(At(state.hardwarePalettes, i), Back(state.unassigned))
    THEN assignHardwareLoop(maxRecurseCount, state, primaryPalettes, i + 1, g)
    ELSE LET updatedState ==
                 [hardwarePalettes |-> [state.hardwarePalettes EXCEPT ![i + 1] =
                                           @ \cup Back(state.unassigned)],
                  unassigned       |-> PopBack(state.unassigned)]
             r == assign(maxRecurseCount, updatedState, primaryPalettes, g)
         IN  IF r.ret THEN Placed(Back(state.unassigned), r)
             ELSE IF r.err # "" THEN r
             ELSE assignHardwareLoop(maxRecurseCount, state, primaryPalettes, i + 1,
                                     r.gRecurseCount)

(***************************************************************************)
(* GBATile {colorIndexes[TILE_NUM_PIX]}, GBAPalette {size, colors[PAL_SIZE]}*)
(* and CompiledTileset.                                                    *)
(***************************************************************************)
GBA_TILE_TRANSPARENT == [i \in 0..(TILE_NUM_PIX - 1) |-> 0]

\* a value-initialized GBAPalette, as palettes.resize() makes it
GBAPaletteDefault == [size |-> 0, colors |-> [s \in 0..(PAL_SIZE - 1) |-> 0]]

\* a value-initialized Assignment, as assignments.resize() makes it
AssignmentDefault == [tileIndex |-> 0, paletteIndex |-> 0, hFlip |-> FALSE, vFlip |-> FALSE]

CompiledTilesetEmpty ==
    [tiles |-> <<>>, paletteIndexesOfTile |-> <<>>, palettes |-> <<>>,
     assignments |-> <<>>, tileIndexes |-> EmptyMap, colorIndexMap |-> EmptyMap]

\* std::find over palette.colors[1 .. PAL_SIZE): the first slot holding bgr, or PAL_SIZE
FindInGBAPalette(palette, bgr) ==
    LET hits == {s \in 1..(PAL_SIZE - 1) : palette.colors[s] = bgr}
    IN  IF hits = {} THEN PAL_SIZE
        ELSE CHOOSE s \in hits : \A u \in hits : s <= u

\* makeTile keeping the indexes of the normalized palette
makeTileUntranslated(normalizedTile, palette) ==
    [tile |-> normalizedTile.pixels, err |-> ""]

\* makeTile: [tile, err]
makeTile(normalizedTile, palette) ==
    LET used == 1..(normalizedTile.palette.size - 1)
        paletteIndexes == [i \in 0..(PAL_SIZE - 1) |->
                              IF i \in used
                              THEN FindInGBAPalette(palette, normalizedTile.palette.colors[i])
                              ELSE 0]
    IN  IF \E i \in used : paletteIndexes[i] = PAL_SIZE
        THEN [tile |-> GBA_TILE_TRANSPARENT, err |-> "it == std::end(palette.colors)"]
        ELSE [tile |-> [i \in 0..(TILE_NUM_PIX - 1) |->
                           paletteIndexes[normalizedTile.pixels[i]]],
              err  |-> ""]

\* a search that returns the last palette color set covering colorSet
FindLastCoveringPalette(palettes, colorSet) ==
    LET hits == {i \in 0..(Len(palettes) - 1) : colorSet \ At(palettes, i) = {}}
    IN  IF hits = {} THEN Len(palettes)
        ELSE CHOOSE i \in hits : \A u \in hits : i >= u

\* std::find_if: the index of the first palette color set covering colorSet, or the size
FindCoveringPalette(palettes, colorSet) ==
    LET hits == {i \in 0..(Len(palettes) - 1) : colorSet \ At(palettes, i) = {}}
    IN  IF hits = {} THEN Len(palettes)
        ELSE CHOOSE i \in hits : \A u \in hits : i <= u

Assignment(tileIndex, paletteIndex, normTile) ==
    [tileIndex |-> tileIndex, paletteIndex |-> paletteIndex,
     hFlip |-> normTile.hFlip, vFlip |-> normTile.vFlip]

\* FieldmapConfig::numTilesInSecondary(), numPalettesInSecondary(), numMetatilesInSecondary()
numTilesInSecondary(fieldmapConfig) ==
    fieldmapConfig.numTilesTotal - fieldmapConfig.numTilesInPrimary
numPalettesInSecondary(fieldmapConfig) ==
    fieldmapConfig.numPalettesTotal - fieldmapConfig.numPalettesInPrimary
numMetatilesInSecondary(fieldmapConfig) ==
    fieldmapConfig.numMetatilesTotal - fieldmapConfig.numMetatilesInPrimary

\* a capacity test that lets one tile more through
TooManyTilesPrimaryOffByOne(ctx, tiles) ==
    Len(tiles) > ctx.fieldmapConfig.numTilesInPrimary + 1

\* the capacity test after a tile was appended in primary mode
TooManyTilesPrimary(ctx, tiles) == Len(tiles) > ctx.fieldmapConfig.numTilesInPrimary

\* the capacity test after a tile was appended in secondary mode
TooManyTilesSecondary(ctx, tiles) == Len(tiles) > numTilesInSecondary(ctx.fieldmapConfig)

\* a set-up that appends no transparent tile
PrimaryTilesInitNoTile(compiled) ==
    [compiled |-> compiled, tileIndexes |-> (GBA_TILE_TRANSPARENT :> 0), err |-> ""]

\* the state assignTilesPrimary sets up before its loop
PrimaryTilesInit(compiled) ==
    [compiled     |-> [compiled EXCEPT !.tiles = Append(@, GBA_TILE_TRANSPARENT),
                                       !.paletteIndexesOfTile = Append(@, 0)],
     tileIndexes  |-> (GBA_TILE_TRANSPARENT :> 0),
     err          |-> ""]

\* an insert that numbers the new tile one too high
InsertTileIndexOneHigh(tileIndexes, gbaTile, tiles) ==
    IF gbaTile \in DOMAIN tileIndexes THEN tileIndexes
    ELSE tileIndexes @@ (gbaTile :> Len(tiles) + 1)

\* tileIndexes.insert({gbaTile, compiled.tiles.size()}): the map after the call
InsertTileIndex(tileIndexes, gbaTile, tiles) ==
    IF gbaTile \in DOMAIN tileIndexes THEN tileIndexes
    ELSE tileIndexes @@ (gbaTile :> Len(tiles))

\* one iteration of the loop of assignTilesPrimary; acc = [compiled, tileIndexes, err]
assignTilePrimary(ctx, acc, indexedNormTile, assignedPalsSolution) ==
    LET normTile == indexedNormTile.tile
        paletteIndex == FindCoveringPalette(assignedPalsSolution, indexedNormTile.colorSet)
    IN  IF paletteIndex = Len(assignedPalsSolution)
        THEN [acc EXCEPT !.err = "it == std::end(assignedPalsSolution)"]
        ELSE LET made == makeTile(normTile, At(acc.compiled.palettes, paletteIndex))
                 gbaTile == made.tile
                 inserted == gbaTile \notin DOMAIN acc.tileIndexes
                 tileIndexes == InsertTileIndex(acc.tileIndexes, gbaTile, acc.compiled.tiles)
                 tiles == IF inserted THEN Append(acc.compiled.tiles, gbaTile)
                          ELSE acc.compiled.tiles
             IN  IF made.err # "" THEN [acc EXCEPT !.err = made.err]
                 ELSE IF inserted /\ TooManyTilesPrimary(ctx, tiles)
                 THEN [compiled    |-> [acc.compiled EXCEPT !.tiles = tiles],
                       tileIndexes |-> tileIndexes,
                       err         |-> "too many tiles"]
                 ELSE [compiled |->
                          [acc.compiled EXCEPT
                             !.tiles = tiles,
                             !.paletteIndexesOfTile =
                                 IF inserted THEN Append(@, paletteIndex) ELSE @,
                             !.assignments[indexedNormTile.index + 1] =
                                 Assignment(tileIndexes[gbaTile], paletteIndex, normTile)],
                       tileIndexes |-> tileIndexes,
                       err         |-> ""]

RECURSIVE assignTilesPrimaryLoop(_, _, _, _, _)
assignTilesPrimaryLoop(ctx, acc, indexedNormTilesWithColorSets, assignedPalsSolution, k) ==
    IF k > Len(indexedNormTilesWithColorSets) \/ acc.err # "" THEN acc
    ELSE assignTilesPrimaryLoop(ctx,
             assignTilePrimary(ctx, acc, indexedNormTilesWithColorSets[k],
                               assignedPalsSolution),
             indexedNormTilesWithColorSets, assignedPalsSolution, k + 1)

\* assignTilesPrimary: [compiled, err]
assignTilesPrimary(ctx, compiled, indexedNormTilesWithColorSets, assignedPalsSolution) ==
    LET r == assignTilesPrimaryLoop(ctx, PrimaryTilesInit(compiled),
                 indexedNormTilesWithColorSets, assignedPalsSolution, 1)
    IN  [compiled |-> IF r.err = ""
                      THEN [r.compiled EXCEPT !.tileIndexes = r.tileIndexes]
                      ELSE r.compiled,
         err      |-> r.err]

\* the state assignTilesSecondary sets up before its loop
SecondaryTilesInit(compiled) ==
    [compiled |-> compiled, tileIndexes |-> EmptyMap, err |-> ""]

\* a tile index without the offset
SecondaryTileIndexLocal(ctx, localIndex) == localIndex

\* the tile index a secondary-local tile gets: its VRAM position after the primary tiles
SecondaryTileIndex(ctx, localIndex) == localIndex + ctx.fieldmapConfig.numTilesInPrimary

\* one iteration of the loop of assignTilesSecondary
assignTileSecondary(ctx, acc, indexedNormTile, allColorSets) ==
    LET normTile == indexedNormTile.tile
        paletteIndex == FindCoveringPalette(allColorSets, indexedNormTile.colorSet)
        primaryTileIndexes == ctx.compilerContext.pairedPrimaryTiles.tileIndexes
    IN  IF paletteIndex = Len(allColorSets)
        THEN [acc EXCEPT !.err = "it == std::end(allColorSets)"]
        ELSE LET made == makeTile(normTile, At(acc.compiled.palettes, paletteIndex))
                 gbaTile == made.tile
             IN  IF made.err # "" THEN [acc EXCEPT !.err = made.err]
                 ELSE IF gbaTile \in DOMAIN primaryTileIndexes
                 THEN [acc EXCEPT !.compiled.assignments[indexedNormTile.index + 1] =
                           Assignment(primaryTileIndexes[gbaTile], paletteIndex, normTile)]
                 ELSE LET inserted == gbaTile \notin DOMAIN acc.tileIndexes
                          tileIndexes ==
                              InsertTileIndex(acc.tileIndexes, gbaTile, acc.compiled.tiles)
                          tiles == IF inserted THEN Append(acc.compiled.tiles, gbaTile)
                                   ELSE acc.compiled.tiles
                      IN  IF inserted /\ TooManyTilesSecondary(ctx, tiles)
                          THEN [compiled    |-> [acc.compiled EXCEPT !.tiles = tiles],
                                tileIndexes |-> tileIndexes,
                                err         |-> "too many tiles"]
                          ELSE [compiled |->
                                   [acc.compiled EXCEPT
                                      !.tiles = tiles,
                                      !.paletteIndexesOfTile =
                                          IF inserted THEN Append(@, paletteIndex) ELSE @,
                                      !.assignments[indexedNormTile.index + 1] =
                                          Assignment(
                                              SecondaryTileIndex(ctx, tileIndexes[gbaTile]),
                                              paletteIndex, normTile)],
                                tileIndexes |-> tileIndexes,
                                err         |-> ""]

RECURSIVE assignTilesSecondaryLoop(_, _, _, _, _)
assignTilesSecondaryLoop(ctx, acc, indexedNormTilesWithColorSets, allColorSets, k) ==
    IF k > Len(indexedNormTilesWithColorSets) \/ acc.err # "" THEN acc
    ELSE assignTilesSecondaryLoop(ctx,
             assignTileSecondary(ctx, acc, indexedNormTilesWithColorSets[k], allColorSets),
             indexedNormTilesWithColorSets, allColorSets, k + 1)

\* assignTilesSecondary: [compiled, err]
assignTilesSecondary(ctx, compiled, withColorSets, primaryPalettes, assignedPalsSolution) ==
    LET allColorSets == primaryPalettes \o assignedPalsSolution
        r == assignTilesSecondaryLoop(ctx, SecondaryTilesInit(compiled),
                 withColorSets, allColorSets, 1)
    IN  [compiled |-> IF r.err = ""
                      THEN [r.compiled EXCEPT !.tileIndexes = r.tileIndexes]
                      ELSE r.compiled,
         err      |-> r.err]

\* the n-th largest bit set in a color set
NthBitDescending(colorSet, n) ==
    CHOOSE j \in colorSet : Cardinality({b \in colorSet : b > j}) = n - 1

\* the n-th smallest (n = 1, 2, ...) bit set in a color set
NthBit(colorSet, n) == CHOOSE j \in colorSet : Cardinality({b \in colorSet : b < j}) = n - 1

\* the palette compile writes over `palette' for the color set palAssignments
MaterializePalette(ctx, palette, palAssignments, indexToColor) ==
    [size   |-> count(palAssignments) + 1,
     colors |-> [s \in 0..(PAL_SIZE - 1) |->
                    IF s = 0 THEN rgbaToBgr(ctx.compilerConfig.transparencyColor)
                    ELSE IF s <= count(palAssignments)
                    THEN indexToColor[NthBit(palAssignments, s)]
                    ELSE palette.colors[s]]]

\* a copy loop that stops at the primary palette's size
CopyPaletteColorsUpToSize(palette, primaryPalette) ==
    [palette EXCEPT !.colors = [s \in 0..(PAL_SIZE - 1) |->
                                   IF s < primaryPalette.size - 1
                                   THEN primaryPalette.colors[s] ELSE palette.colors[s]]]

\* the copy loop over the PAL_SIZE slots of a primary palette: size is not copied
CopyPaletteColors(palette, primaryPalette) ==
    [palette EXCEPT !.colors = [s \in 0..(PAL_SIZE - 1) |-> primaryPalette.colors[s]]]

\* the palettes of compiled after the copy of the solution into them
MaterializePalettes(ctx, palettes, assignedPalsSolution, indexToColor) ==
    LET fc == ctx.fieldmapConfig
    IN  IF ctx.compilerConfig.mode = "PRIMARY"
        THEN [p \in 1..Len(palettes) |->
                 IF p - 1 < fc.numPalettesInPrimary
                 THEN MaterializePalette(ctx, palettes[p],
                                         At(assignedPalsSolution, p - 1), indexToColor)
                 ELSE palettes[p]]
        ELSE [p \in 1..Len(palettes) |->
                 IF p - 1 < fc.numPalettesInPrimary
                 THEN CopyPaletteColors(palettes[p],
                          At(ctx.compilerContext.pairedPrimaryTiles.palettes, p - 1))
                 ELSE IF p - 1 < fc.numPalettesTotal
                 THEN MaterializePalette(ctx, palettes[p],
                          At(assignedPalsSolution, p - 1 - fc.numPalettesInPrimary),
                          indexToColor)
                 ELSE palettes[p]]

\* the ColorSets compile builds for the palettes of the paired primary
PrimaryPaletteColorSets(ctx, colorToIndex) ==
    LET primaryPalettes == ctx.compilerContext.pairedPrimaryTiles.palettes
    IN  [i \in 1..Len(primaryPalettes) |->
            {colorToIndex[primaryPalettes[i].colors[j]] :
                 j \in 1..(primaryPalettes[i].size - 1)}]

(***************************************************************************)
(* Inputs.                                                                 *)
(***************************************************************************)
\* a tile whose four corners are the given pixels, every other pixel clear
CornerTile(nw, ne, sw, se) ==
    [i \in 0..(TILE_NUM_PIX - 1) |->
        IF i = 0 THEN nw
        ELSE IF i = TILE_SIDE_LENGTH - 1 THEN ne
        ELSE IF i = TILE_NUM_PIX - TILE_SIDE_LENGTH THEN sw
        ELSE IF i = TILE_NUM_PIX - 1 THEN se
        ELSE RGBA_CLEAR]

\* the tilesets of exactly n tiles drawn from S
Tilesets(S, n) == [1..n -> S]

NumPrimaryTiles == 2
NumSecondaryTiles == 2

\* primary tiles: any two pixels in the top row, transparency drawn in magenta
PrimaryPixels == {RGBA_MAGENTA, RGBA_RED, RGBA_GREEN}
PrimaryTiles == {CornerTile(a, b, RGBA_MAGENTA, RGBA_MAGENTA) : a, b \in PrimaryPixels}

\* secondary tiles: two pixels in the left column, transparency by alpha; the
\* red is one that only BGR15 identifies with the primary's red
SecondaryTiles ==
    {CornerTile(a, RGBA_CLEAR, b, RGBA_CLEAR) :
        a \in {RGBA_CLEAR, RGBA_RED_LOW, RGBA_BLUE}, b \in {RGBA_CLEAR, RGBA_BLUE}}

PrimaryInputs == Tilesets(PrimaryTiles, NumPrimaryTiles)
SecondaryInputs == Tilesets(SecondaryTiles, NumSecondaryTiles)

numTilesInPrimary == 2
numTilesTotal == 3
numMetatilesInPrimary == 4
numMetatilesTotal == 8
numPalettesInPrimary == 2
numPalettesTotal == 3
numTilesPerMetatile == 1
maxRecurseCount == 6

FieldmapConfig ==
    [numTilesInPrimary     |-> numTilesInPrimary,
     numTilesTotal         |-> numTilesTotal,
     numMetatilesInPrimary |-> numMetatilesInPrimary,
     numMetatilesTotal     |-> numMetatilesTotal,
     numPalettesInPrimary  |-> numPalettesInPrimary,
     numPalettesTotal      |-> numPalettesTotal,
     numTilesPerMetatile   |-> numTilesPerMetatile]

\* what a compile reads of the paired primary CompiledTileset: its tiles (through
\* tileIndexes), its palettes and its colorIndexMap
PairedPrimary(compiledPrimary) ==
    [tiles         |-> compiledPrimary.tiles,
     palettes      |-> compiledPrimary.palettes,
     tileIndexes   |-> compiledPrimary.tileIndexes,
     colorIndexMap |-> compiledPrimary.colorIndexMap]

NoTileset == PairedPrimary(CompiledTilesetEmpty)

\* ErrorsAndWarnings as constructed: nothing counted yet
ErrorsAndWarnings ==
    [errCount |-> 0, warnCount |-> 0,
     colorPrecisionLoss |-> "OFF",
     keyFrameTileDidNotAppearInAssignment |-> "OFF",
     usedTrueColorMode |-> "OFF",
     attributeFormatMismatch |-> "OFF",
     missingAttributesCsv |-> "OFF",
     missingBehaviorsHeader |-> "OFF"]

PtContext(mode, pairedPrimaryTiles) ==
    [fieldmapConfig  |-> FieldmapConfig,
     compilerConfig  |-> [mode |-> mode, transparencyColor |-> RGBA_MAGENTA,
                          tripleLayer |-> FALSE,
                          maxRecurseCount |-> maxRecurseCount],
     compilerContext |-> [pairedPrimaryTiles |-> pairedPrimaryTiles],
     targetBaseGame  |-> "EMERALD",
     output          |-> [paletteMode |-> "GREYSCALE"],
     err             |-> ErrorsAndWarnings]

\* a png::image of no pixel
PngEmpty == [width |-> 0, height |-> 0, rows |-> <<>>]

(***************************************************************************)
(* State: the context, the input and the locals of one call of compile,    *)
(* the process-wide gRecurseCount, and where the call stands.              *)
(***************************************************************************)
VARIABLES ctx, decompiledTileset, pc, err, compiled, indexedNormTiles,
          colorToIndex, indexToColor, indexedNormTilesWithColorSets, colorSets,
          state, primaryPaletteColorSets, assignedPalsSolution, gRecurseCount,
          bottom, middle, top, attributesMap, decompiledTiles, metatileIndex,
          argv, optind, options

vars == <<ctx, decompiledTileset, pc, err, compiled, indexedNormTiles,
          colorToIndex, indexToColor, indexedNormTilesWithColorSets, colorSets,
          state, primaryPaletteColorSets, assignedPalsSolution, gRecurseCount,
          bottom, middle, top, attributesMap, decompiledTiles, metatileIndex,
          argv, optind, options>>

\* the command line of parseCompile, getopt's position in it, and the
\* warning variables of parseCompile
parserLocals == <<argv, optind, options>>

\* parseCompile, lines 375-395: the warning variables as declared
WarningOptionsInit ==
    [enableAllWarnings |-> FALSE,
     disableAllWarnings |-> FALSE,
     setAllEnabledWarningsToErrors |-> FALSE,
     warnColorPrecisionLoss |-> FALSE,
     errColorPrecisionLoss |-> FALSE,
     errKeyFrameTileDidNotAppearInAssignment |-> FALSE,
     errUsedTrueColorMode |-> FALSE,
     errAttributeFormatMismatch |-> FALSE,
     errMissingAttributesCsv |-> FALSE,
     errMissingBehaviorsHeader |-> FALSE]

\* no command line under way
ParserIdle ==
    /\ argv = <<>>
    /\ optind = 1
    /\ options = WarningOptionsInit

\* the parameters and the locals of importLayeredTilesFromPngs
importerLocals == <<bottom, middle, top, attributesMap, decompiledTiles, metatileIndex>>

\* no import under way: no image, no attribute, no tile
ImporterIdle ==
    /\ bottom = PngEmpty
    /\ middle = PngEmpty
    /\ top = PngEmpty
    /\ attributesMap = EmptyMap
    /\ decompiledTiles = <<>>
    /\ metatileIndex = 0

locals == <<indexedNormTiles, colorToIndex, indexToColor,
            indexedNormTilesWithColorSets, colorSets, state,
            primaryPaletteColorSets, assignedPalsSolution>>

LocalsInit ==
    /\ indexedNormTiles = <<>>
    /\ colorToIndex = EmptyMap
    /\ indexToColor = EmptyMap
    /\ indexedNormTilesWithColorSets = <<>>
    /\ colorSets = <<>>
    /\ state = [hardwarePalettes |-> <<>>, unassigned |-> <<>>]
    /\ primaryPaletteColorSets = <<>>
    /\ assignedPalsSolution = <<>>

Init ==
    /\ ctx = PtContext("PRIMARY", NoTileset)
    /\ decompiledTileset \in PrimaryInputs
    /\ pc = "start"
    /\ err = ""
    /\ compiled = CompiledTilesetEmpty
    /\ ImporterIdle
    /\ ParserIdle
    /\ gRecurseCount = 0
    /\ LocalsInit

Throw(message) == pc' = "failed" /\ err' = message

\* a metatile count test that lets every tileset through
MetatileLimitNeverExceeded(fc, secondary, inputMetatileCount) == FALSE

\* the tests on inputMetatileCount of lines 1100 and 1109
MetatileLimitExceeded(fc, secondary, inputMetatileCount) ==
    inputMetatileCount > (IF secondary THEN numMetatilesInSecondary(fc)
                          ELSE fc.numMetatilesInPrimary)

\* compile, lines 1090-1122: the mode checks, the palette and assignment resize
CompileBegin ==
    /\ pc = "start"
    /\ UNCHANGED importerLocals
    /\ UNCHANGED parserLocals
    /\ LET fc == ctx.fieldmapConfig
           secondary == ctx.compilerConfig.mode = "SECONDARY"
           inputMetatileCount == Len(decompiledTileset) \div fc.numTilesPerMetatile
           sized == [CompiledTilesetEmpty EXCEPT
                        !.palettes = [p \in 1..(IF secondary THEN fc.numPalettesTotal
                                                ELSE fc.numPalettesInPrimary) |->
                                         GBAPaletteDefault]]
       IN  IF secondary /\ fc.numPalettesInPrimary #
                               Len(ctx.compilerContext.pairedPrimaryTiles.palettes)
           THEN Throw("internal error: numPalettesInPrimary != primary palettes size")
                /\ compiled' = CompiledTilesetEmpty
           ELSE IF MetatileLimitExceeded(fc, secondary, inputMetatileCount)
           THEN Throw("input metatile count exceeded metatile limit")
                /\ compiled' = sized
           ELSE /\ compiled' = [sized EXCEPT !.assignments =
                                   [k \in 1..Len(decompiledTileset) |-> AssignmentDefault]]
                /\ pc' = "normalize"
                /\ err' = ""
    /\ UNCHANGED <<ctx, decompiledTileset, gRecurseCount, locals>>

\* compile, lines 1128-1129
NormalizeStage ==
    /\ pc = "normalize"
    /\ UNCHANGED importerLocals
    /\ UNCHANGED parserLocals
    /\ LET r == normalizeDecompTiles(ctx.compilerConfig.transparencyColor, decompiledTileset)
       IN  IF r.err # ""
           THEN Throw(r.err) /\ UNCHANGED indexedNormTiles
           ELSE indexedNormTiles' = r.tiles /\ pc' = "colorIndex" /\ err' = ""
    /\ UNCHANGED <<ctx, decompiledTileset, compiled, gRecurseCount, colorToIndex,
                   indexToColor, indexedNormTilesWithColorSets, colorSets, state,
                   primaryPaletteColorSets, assignedPalsSolution>>

\* compile, lines 1134-1140
ColorIndexStage ==
    /\ pc = "colorIndex"
    /\ UNCHANGED importerLocals
    /\ UNCHANGED parserLocals
    /\ LET primaryColorIndexMap ==
               IF ctx.compilerConfig.mode = "SECONDARY"
               THEN ctx.compilerContext.pairedPrimaryTiles.colorIndexMap
               ELSE EmptyMap
       IN  \E order \in IterationOrders(primaryColorIndexMap) :
             LET r == buildColorIndexMaps(ctx, indexedNormTiles, primaryColorIndexMap, order)
             IN  IF r.err # ""
                 THEN Throw(r.err) /\ UNCHANGED <<colorToIndex, indexToColor, compiled>>
                 ELSE /\ colorToIndex' = r.colorIndexes
                      /\ indexToColor' = r.indexesToColors
                      /\ compiled' = [compiled EXCEPT !.colorIndexMap = r.colorIndexes]
                      /\ pc' = "colorSets"
                      /\ err' = ""
    /\ UNCHANGED <<ctx, decompiledTileset, gRecurseCount, indexedNormTiles,
                   indexedNormTilesWithColorSets, colorSets, state,
                   primaryPaletteColorSets, assignedPalsSolution>>

\* compile, lines 1147-1188: the color sets and the inputs of assign
ColorSetStage ==
    /\ pc = "colorSets"
    /\ UNCHANGED importerLocals
    /\ UNCHANGED parserLocals
    /\ LET r == matchNormalizedWithColorSets(colorToIndex, indexedNormTiles)
           secondary == ctx.compilerConfig.mode = "SECONDARY"
           numHardware == IF secondary THEN numPalettesInSecondary(ctx.fieldmapConfig)
                          ELSE ctx.fieldmapConfig.numPalettesInPrimary
       IN  /\ indexedNormTilesWithColorSets' = r.withColorSets
           /\ colorSets' = r.colorSets
           /\ state' = [hardwarePalettes |-> [p \in 1..numHardware |-> {}],
                        unassigned       |-> SortUnassigned(r.colorSets)]
           /\ primaryPaletteColorSets' =
                  IF secondary THEN PrimaryPaletteColorSets(ctx, colorToIndex) ELSE <<>>
    /\ pc' = "assign"
    /\ UNCHANGED <<ctx, decompiledTileset, err, compiled, gRecurseCount,
                   indexedNormTiles, colorToIndex, indexToColor, assignedPalsSolution>>

\* compile, lines 1190-1197: gRecurseCount = 0 and the root call of assign
AssignStage ==
    /\ pc = "assign"
    /\ UNCHANGED importerLocals
    /\ UNCHANGED parserLocals
    /\ LET r == assign(ctx.compilerConfig.maxRecurseCount, state,
                       primaryPaletteColorSets, ResetRecurseCount(gRecurseCount))
       IN  /\ gRecurseCount' = r.gRecurseCount
           /\ IF r.err # "" THEN Throw(r.err) /\ UNCHANGED assignedPalsSolution
              ELSE IF ~r.ret
              THEN Throw("failed to allocate palettes") /\ UNCHANGED assignedPalsSolution
              ELSE /\ assignedPalsSolution' = assignedPalsSolution \o r.solution
                   /\ pc' = "palettes"
                   /\ err' = ""
    /\ UNCHANGED <<ctx, decompiledTileset, compiled, indexedNormTiles, colorToIndex,
                   indexToColor, indexedNormTilesWithColorSets, colorSets, state,
                   primaryPaletteColorSets>>

\* compile, lines 1203-1242
PaletteStage ==
    /\ pc = "palettes"
    /\ UNCHANGED importerLocals
    /\ UNCHANGED parserLocals
    /\ compiled' = [compiled EXCEPT !.palettes =
                       MaterializePalettes(ctx, @, assignedPalsSolution, indexToColor)]
    /\ pc' = "tiles"
    /\ UNCHANGED <<ctx, decompiledTileset, err, gRecurseCount, locals>>

\* compile, lines 1247-1260
TileStage ==
    /\ pc = "tiles"
    /\ UNCHANGED importerLocals
    /\ UNCHANGED parserLocals
    /\ LET r == IF ctx.compilerConfig.mode = "PRIMARY"
                THEN assignTilesPrimary(ctx, compiled, indexedNormTilesWithColorSets,
                                        assignedPalsSolution)
                ELSE assignTilesSecondary(ctx, compiled, indexedNormTilesWithColorSets,
                                          primaryPaletteColorSets, assignedPalsSolution)
       IN  /\ compiled' = r.compiled
           /\ IF r.err # "" THEN Throw(r.err) ELSE pc' = "done" /\ err' = ""
    /\ UNCHANGED <<ctx, decompiledTileset, gRecurseCount, locals>>

\* the driver compiles a secondary tileset with the compiled primary as its pair
CompileSecondaryOf(inputs) ==
    /\ pc = "done"
    /\ UNCHANGED importerLocals
    /\ UNCHANGED parserLocals
    /\ ctx.compilerConfig.mode = "PRIMARY"
    /\ ctx' = PtContext("SECONDARY", PairedPrimary(compiled))
    /\ decompiledTileset' \in inputs
    /\ pc' = "start"
    /\ err' = ""
    /\ compiled' = CompiledTilesetEmpty
    /\ indexedNormTiles' = <<>>
    /\ colorToIndex' = EmptyMap
    /\ indexToColor' = EmptyMap
    /\ indexedNormTilesWithColorSets' = <<>>
    /\ colorSets' = <<>>
    /\ state' = [hardwarePalettes |-> <<>>, unassigned |-> <<>>]
    /\ primaryPaletteColorSets' = <<>>
    /\ assignedPalsSolution' = <<>>
    /\ UNCHANGED gRecurseCount

CompileSecondary == CompileSecondaryOf(SecondaryInputs)

Next ==
    \/ CompileBegin
    \/ NormalizeStage
    \/ ColorIndexStage
    \/ ColorSetStage
    \/ AssignStage
    \/ PaletteStage
    \/ TileStage
    \/ CompileSecondary

Spec == Init /\ [][Next]_vars

(***************************************************************************)
(* normalize on its own: compile up to the end of the normalize step, on a *)
(* tileset that holds one tile and one flip of it.                         *)
(***************************************************************************)
\* the tile whose pixel (row, col) is the pixel (rowWithFlip, colWithFlip) of rgba
FlipTile(rgba, hFlip, vFlip) ==
    [i \in 0..(TILE_NUM_PIX - 1) |->
        LET row == i \div TILE_SIDE_LENGTH
            col == i % TILE_SIDE_LENGTH
            rowWithFlip == IF vFlip THEN TILE_SIDE_LENGTH - 1 - row ELSE row
            colWithFlip == IF hFlip THEN TILE_SIDE_LENGTH - 1 - col ELSE col
        IN  getPixel(rgba, rowWithFlip, colWithFlip)]

NormalizePixels ==
    {RGBA_CLEAR, RGBA_MAGENTA, RGBA_RED, RGBA_RED_LOW, RGBA_GREEN, RGBA_BLUE, RGBA_BAD_ALPHA}
NormalizeTiles == {CornerTile(nw, ne, sw, se) : nw, ne, sw, se \in NormalizePixels}
NormalizeInputs ==
    {<<t, FlipTile(t, h, v)>> : t \in NormalizeTiles, h \in BOOLEAN, v \in BOOLEAN}

InitNormalize ==
    /\ ctx = PtContext("PRIMARY", NoTileset)
    /\ decompiledTileset \in NormalizeInputs
    /\ pc = "start"
    /\ err = ""
    /\ compiled = CompiledTilesetEmpty
    /\ ImporterIdle
    /\ ParserIdle
    /\ gRecurseCount = 0
    /\ LocalsInit

NextNormalize ==
    \/ CompileBegin
    \/ NormalizeStage

SpecNormalize == InitNormalize /\ [][NextNormalize]_vars

(***************************************************************************)
(* normalize applied twice: compile up to the end of the normalize step,   *)
(* on a tileset that holds one tile and the normal form of that tile drawn *)
(* again as an RGBATile.                                                   *)
(***************************************************************************)
\* an RGBA32 color that rgbaToBgr turns into bgr
bgrToRgba(bgr) ==
    RGBA32((bgr % 32) * 8, ((bgr \div 32) % 32) * 8, ((bgr \div 1024) % 32) * 8,
           ALPHA_OPAQUE)

\* a normalized tile drawn as an RGBATile through its own palette: slot 0 is
\* the transparency color, the other slots are colors of their BGR15 value
Render(transparencyColor, tile) ==
    [i \in 0..(TILE_NUM_PIX - 1) |->
        IF tile.pixels[i] = 0 THEN transparencyColor
        ELSE bgrToRgba(tile.palette.colors[tile.pixels[i]])]

RenormalizeInputs ==
    {<<t, Render(RGBA_MAGENTA, normalize(RGBA_MAGENTA, t).tile)>> :
        t \in {u \in NormalizeTiles : normalize(RGBA_MAGENTA, u).err = ""}}

InitRenormalize ==
    /\ ctx = PtContext("PRIMARY", NoTileset)
    /\ decompiledTileset \in RenormalizeInputs
    /\ pc = "start"
    /\ err = ""
    /\ compiled = CompiledTilesetEmpty
    /\ ImporterIdle
    /\ ParserIdle
    /\ gRecurseCount = 0
    /\ LocalsInit

NextRenormalize ==
    \/ CompileBegin
    \/ NormalizeStage

SpecRenormalize == InitRenormalize /\ [][NextRenormalize]_vars

(***************************************************************************)
(* assign on its own: a root call on K empty hardware palettes, a list of  *)
(* distinct color sets sorted as compile sorts it, and the color sets of   *)
(* the primary palettes (none in primary mode).                            *)
(***************************************************************************)
NumColors == 4
MaxUnassigned == 3
MaxHardwarePalettes == 2

\* std::bitset::to_ulong
RECURSIVE to_ulong(_)
to_ulong(colorSet) ==
    IF colorSet = {} THEN 0
    ELSE LET b == CHOOSE x \in colorSet : TRUE
         IN  2 ^ b + to_ulong(colorSet \ {b})

\* the elements of a set of color sets, one after the other in to_ulong order
RECURSIVE InUlongOrder(_)
InUlongOrder(S) ==
    IF S = {} THEN <<>>
    ELSE LET least == CHOOSE cs \in S : \A other \in S : to_ulong(cs) <= to_ulong(other)
         IN  <<least>> \o InUlongOrder(S \ {least})

\* the color sets a tile can have: at least one color, at most a palette's worth
TileColorSets ==
    {cs \in SUBSET (0..(NumColors - 1)) : count(cs) >= 1 /\ count(cs) <= PAL_SIZE - 1}

\* the subsets of S of at most n elements
RECURSIVE SubsetsUpTo(_, _)
SubsetsUpTo(S, n) ==
    IF n = 0 THEN {{}}
    ELSE LET smaller == SubsetsUpTo(S, n - 1)
         IN  smaller \cup {T \cup {x} : T \in smaller, x \in S}

UnassignedInputs ==
    {SortUnassigned(InUlongOrder(S)) : S \in SubsetsUpTo(TileColorSets, MaxUnassigned)}

\* no primary palette, or one primary palette that is full of the first colors
PrimaryPaletteInputs == {<<>>, <<0..(PAL_SIZE - 2)>>}

InitAssign ==
    /\ \E prim \in PrimaryPaletteInputs :
          /\ primaryPaletteColorSets = prim
          /\ ctx = PtContext(IF prim = <<>> THEN "PRIMARY" ELSE "SECONDARY", NoTileset)
    /\ decompiledTileset = <<>>
    /\ pc = "assign"
    /\ err = ""
    /\ compiled = CompiledTilesetEmpty
    /\ ImporterIdle
    /\ ParserIdle
    /\ gRecurseCount = 0
    /\ indexedNormTiles = <<>>
    /\ colorToIndex = EmptyMap
    /\ indexToColor = EmptyMap
    /\ indexedNormTilesWithColorSets = <<>>
    /\ \E K \in 1..MaxHardwarePalettes, U \in UnassignedInputs :
          /\ state = [hardwarePalettes |-> [p \in 1..K |-> {}], unassigned |-> U]
          /\ colorSets = U
    /\ assignedPalsSolution = <<>>

NextAssign == AssignStage

SpecAssign == InitAssign /\ [][NextAssign]_vars

(***************************************************************************)
(* assign under a small recursion limit: a root call with maxRecurseCount  *)
(* set in the compiler configuration to any value up to the one of the     *)
(* other specifications, on color sets over the colors of one palette and  *)
(* one more.                                                               *)
(***************************************************************************)
RecurseColorSets == {cs \in TileColorSets : cs \subseteq 0..(PAL_SIZE - 1)}

RecurseInputs ==
    {SortUnassigned(InUlongOrder(S)) : S \in SubsetsUpTo(RecurseColorSets, MaxUnassigned)}

InitRecurse ==
    /\ \E prim \in PrimaryPaletteInputs, limit \in 1..maxRecurseCount :
          /\ primaryPaletteColorSets = prim
          /\ ctx = [PtContext(IF prim = <<>> THEN "PRIMARY" ELSE "SECONDARY", NoTileset)
                       EXCEPT !.compilerConfig.maxRecurseCount = limit]
    /\ decompiledTileset = <<>>
    /\ pc = "assign"
    /\ err = ""
    /\ compiled = CompiledTilesetEmpty
    /\ ImporterIdle
    /\ ParserIdle
    /\ gRecurseCount = 0
    /\ indexedNormTiles = <<>>
    /\ colorToIndex = EmptyMap
    /\ indexToColor = EmptyMap
    /\ indexedNormTilesWithColorSets = <<>>
    /\ \E K \in 1..MaxHardwarePalettes, U \in RecurseInputs :
          /\ state = [hardwarePalettes |-> [p \in 1..K |-> {}], unassigned |-> U]
          /\ colorSets = U
    /\ assignedPalsSolution = <<>>

NextRecurse == AssignStage

SpecRecurse == InitRecurse /\ [][NextRecurse]_vars

(***************************************************************************)
(* compile on tilesets of many colors: a primary compile, then a secondary *)
(* compile paired with it, on tilesets of one more tile whose tiles bring  *)
(* up to two colors each.                                                  *)
(***************************************************************************)
NumBudgetTiles == 3

BudgetPrimaryTiles ==
    {CornerTile(px[1], px[2], RGBA_MAGENTA, RGBA_MAGENTA) :
        px \in {<<RGBA_MAGENTA, RGBA_MAGENTA>>, <<RGBA_RED, RGBA_GREEN>>,
                <<RGBA_BLUE, RGBA_BLACK>>, <<RGBA_YELLOW, RGBA_MAGENTA>>}}

BudgetSecondaryTiles ==
    {CornerTile(px[1], RGBA_CLEAR, px[2], RGBA_CLEAR) :
        px \in {<<RGBA_CLEAR, RGBA_CLEAR>>, <<RGBA_BLUE, RGBA_BLACK>>,
                <<RGBA_YELLOW, RGBA_CYAN>>, <<RGBA_WHITE, RGBA_RED_LOW>>,
                <<RGBA_WHITE, RGBA_CLEAR>>}}

BudgetPrimaryInputs == Tilesets(BudgetPrimaryTiles, NumBudgetTiles)
BudgetSecondaryInputs == Tilesets(BudgetSecondaryTiles, NumBudgetTiles)

InitBudget ==
    /\ ctx = PtContext("PRIMARY", NoTileset)
    /\ decompiledTileset \in BudgetPrimaryInputs
    /\ pc = "start"
    /\ err = ""
    /\ compiled = CompiledTilesetEmpty
    /\ ImporterIdle
    /\ ParserIdle
    /\ gRecurseCount = 0
    /\ LocalsInit

CompileSecondaryBudget == CompileSecondaryOf(BudgetSecondaryInputs)

NextBudget ==
    \/ CompileBegin
    \/ NormalizeStage
    \/ ColorIndexStage
    \/ ColorSetStage
    \/ AssignStage
    \/ PaletteStage
    \/ TileStage
    \/ CompileSecondaryBudget

SpecBudget == InitBudget /\ [][NextBudget]_vars

(***************************************************************************)
(* compile on tilesets that are over several of its limits at once: tiles  *)
(* with a pixel of invalid alpha or with more colors than a palette holds, *)
(* more colors than the palettes hold together, color sets that the        *)
(* palettes cannot take, more tiles than fit, and, padded with copies of   *)
(* their first tile, more metatiles than allowed.                          *)
(***************************************************************************)
NumFailFastTiles == 3

FailFastTiles ==
    {CornerTile(px[1], px[2], px[3], RGBA_MAGENTA) :
        px \in {<<RGBA_MAGENTA, RGBA_MAGENTA, RGBA_MAGENTA>>,
                <<RGBA_RED, RGBA_MAGENTA, RGBA_MAGENTA>>,
                <<RGBA_RED, RGBA_GREEN, RGBA_MAGENTA>>,
                <<RGBA_GREEN, RGBA_BLUE, RGBA_MAGENTA>>,
                <<RGBA_RED, RGBA_BLUE, RGBA_MAGENTA>>,
                <<RGBA_BLACK, RGBA_YELLOW, RGBA_MAGENTA>>,
                <<RGBA_RED, RGBA_GREEN, RGBA_BLUE>>,
                <<RGBA_BAD_ALPHA, RGBA_MAGENTA, RGBA_MAGENTA>>}}

\* the tileset with copies of its first tile put behind it, one metatile more
\* than a primary tileset may hold in all
Padded(tiles) ==
    [k \in 1..((numMetatilesInPrimary + 1) * numTilesPerMetatile) |->
        IF k <= Len(tiles) THEN tiles[k] ELSE tiles[1]]

FailFastInputs ==
    (UNION {Tilesets(FailFastTiles, n) : n \in 1..NumFailFastTiles})
        \cup {Padded(tiles) : tiles \in Tilesets(FailFastTiles, NumFailFastTiles)}

InitFailFast ==
    /\ ctx = PtContext("PRIMARY", NoTileset)
    /\ decompiledTileset \in FailFastInputs
    /\ pc = "start"
    /\ err = ""
    /\ compiled = CompiledTilesetEmpty
    /\ ImporterIdle
    /\ ParserIdle
    /\ gRecurseCount = 0
    /\ LocalsInit

NextFailFast ==
    \/ CompileBegin
    \/ NormalizeStage
    \/ ColorIndexStage
    \/ ColorSetStage
    \/ AssignStage
    \/ PaletteStage
    \/ TileStage

SpecFailFast == InitFailFast /\ [][NextFailFast]_vars

(***************************************************************************)
(* The importer: importLayeredTilesFromPngs (src/src/importer.cpp 63-333). *)
(* A png::image is its width, its height and its rows of pixels, image     *)
(* [row][col] being rows[row][col].  The program's metatile is 2x2 tiles   *)
(* and its layer image is 8 metatiles wide; the model keeps the code's     *)
(* arithmetic and scales the row of metatiles down.                        *)
(***************************************************************************)
METATILE_TILE_SIDE_LENGTH == 2
METATILE_SIDE_LENGTH == TILE_SIDE_LENGTH * METATILE_TILE_SIDE_LENGTH
METATILES_IN_ROW == 2

\* Attributes{}: the fields of a metatile's attributes before any is set
AttributesDefault ==
    [metatileBehavior |-> 0, terrainType |-> "NORMAL", encounterType |-> "NONE",
     layerType |-> "TRIPLE", baseGame |-> "EMERALD"]

\* RGBATile::transparent(transparencyColor): every pixel is alpha-transparent
\* or the transparency color
RGBATileTransparent(tile, transparencyColor) ==
    \A i \in 0..(TILE_NUM_PIX - 1) :
        tile.pixels[i].alpha = ALPHA_TRANSPARENT \/ tile.pixels[i] = transparencyColor

\* error_allThreeLayersHadNonTransparentContent: one more error on record
error_allThreeLayersHadNonTransparentContent(errs) ==
    [errs EXCEPT !.errCount = @ + 1]

\* error_layerHeightNotDivisibleBy16, error_layerWidthNeq128 and
\* error_layerHeightsMustEq, called that many times in all
error_layerDimensions(errs, times) == [errs EXCEPT !.errCount = @ + times]

\* warn_unusedAttribute, called that many times
warn_unusedAttribute(errs, times) == [errs EXCEPT !.warnCount = @ + times]

\* a std::bitset<3> is the set of its set bits: 0 bottom, 1 middle, 2 top
getLayerBitset(transparentColor, bottomTile, middleTile, topTile) ==
    (IF ~RGBATileTransparent(bottomTile, transparentColor) THEN {0} ELSE {})
        \cup (IF ~RGBATileTransparent(middleTile, transparentColor) THEN {1} ELSE {})
        \cup (IF ~RGBATileTransparent(topTile, transparentColor) THEN {2} ELSE {})

\* an inference that returns TRIPLE for three layers of content and records nothing
layerBitsetToLayerTypeSilently(errs, layerBitset) ==
    LET bottomHasContent == 0 \in layerBitset
        middleHasContent == 1 \in layerBitset
        topHasContent == 2 \in layerBitset
    IN  [errs |-> errs,
         layerType |->
            IF bottomHasContent /\ middleHasContent /\ topHasContent THEN "TRIPLE"
            ELSE IF bottomHasContent /\ ~topHasContent THEN "COVERED"
            ELSE IF bottomHasContent THEN "SPLIT"
            ELSE "NORMAL"]

\* layerBitsetToLayerType: the layer type, and ctx.err as the call leaves it
layerBitsetToLayerType(errs, layerBitset) ==
    LET bottomHasContent == 0 \in layerBitset
        middleHasContent == 1 \in layerBitset
        topHasContent == 2 \in layerBitset
    IN  IF bottomHasContent /\ middleHasContent /\ topHasContent
        THEN [errs |-> error_allThreeLayersHadNonTransparentContent(errs),
              layerType |-> "TRIPLE"]
        ELSE IF ~bottomHasContent /\ ~middleHasContent /\ ~topHasContent
        THEN [errs |-> errs, layerType |-> "NORMAL"]
        ELSE IF bottomHasContent /\ ~middleHasContent /\ ~topHasContent
        THEN [errs |-> errs, layerType |-> "COVERED"]
        ELSE IF ~bottomHasContent /\ middleHasContent /\ ~topHasContent
        THEN [errs |-> errs, layerType |-> "NORMAL"]
        ELSE IF ~bottomHasContent /\ ~middleHasContent /\ topHasContent
        THEN [errs |-> errs, layerType |-> "NORMAL"]
        ELSE IF ~bottomHasContent /\ middleHasContent /\ topHasContent
        THEN [errs |-> errs, layerType |-> "NORMAL"]
        ELSE IF bottomHasContent /\ middleHasContent /\ ~topHasContent
        THEN [errs |-> errs, layerType |-> "COVERED"]
        ELSE [errs |-> errs, layerType |-> "SPLIT"]

\* the attributes of one metatile: the base game of the context, and the
\* behavior, terrain and encounter type of its entry in the map, if it has one
MetatileAttributes(index) ==
    LET base == [AttributesDefault EXCEPT !.baseGame = ctx.targetBaseGame]
    IN  IF index \in DOMAIN attributesMap
        THEN [base EXCEPT !.metatileBehavior = attributesMap[index].metatileBehavior,
                          !.terrainType = attributesMap[index].terrainType,
                          !.encounterType = attributesMap[index].encounterType]
        ELSE base

\* the four tiles one layer image holds of one metatile, in subtile order
LayerTiles(png, layer, index, widthInMetatiles) ==
    LET metatileRow == index \div widthInMetatiles
        metatileCol == index % widthInMetatiles
    IN  [t \in 1..(METATILE_TILE_SIDE_LENGTH * METATILE_TILE_SIDE_LENGTH) |->
            LET tileIndex == t - 1
                tileRow == tileIndex \div METATILE_TILE_SIDE_LENGTH
                tileCol == tileIndex % METATILE_TILE_SIDE_LENGTH
            IN  [type |-> "LAYERED",
                 layer |-> layer,
                 metatileIndex |-> index,
                 subtile |-> tileIndex,
                 attributes |-> MetatileAttributes(index),
                 pixels |->
                    [pixelIndex \in 0..(TILE_NUM_PIX - 1) |->
                        LET pixelRow == (metatileRow * METATILE_SIDE_LENGTH)
                                            + (tileRow * TILE_SIDE_LENGTH)
                                            + (pixelIndex \div TILE_SIDE_LENGTH)
                            pixelCol == (metatileCol * METATILE_SIDE_LENGTH)
                                            + (tileCol * TILE_SIDE_LENGTH)
                                            + (pixelIndex % TILE_SIDE_LENGTH)
                        IN  png.rows[pixelRow][pixelCol]]]]

\* the layer bitset of the first subtile position alone
FirstSubtileLayerBitset(transparentColor, bottomTiles, middleTiles, topTiles) ==
    getLayerBitset(transparentColor, bottomTiles[1], middleTiles[1], topTiles[1])

\* the layer bitsets of the subtile positions, ORed together
MetatileLayerBitset(transparentColor, bottomTiles, middleTiles, topTiles) ==
    UNION {getLayerBitset(transparentColor, bottomTiles[i], middleTiles[i], topTiles[i]) :
               i \in DOMAIN bottomTiles}

\* the tiles with their layer type set
WithLayerType(tiles, layerType) ==
    [i \in DOMAIN tiles |-> [tiles[i] EXCEPT !.attributes.layerType = layerType]]

\* a copy that pushes the upper of the two kept layers first
PushedTilesUpperFirst(layerType, bottomTiles, middleTiles, topTiles) ==
    CASE layerType = "TRIPLE" -> bottomTiles \o middleTiles \o topTiles
      [] layerType = "NORMAL" -> topTiles \o middleTiles
      [] layerType = "COVERED" -> middleTiles \o bottomTiles
      [] layerType = "SPLIT" -> topTiles \o bottomTiles

\* the switch of lines 279-316: the tiles pushed to decompiledTiles.tiles for
\* one metatile
PushedTiles(layerType, bottomTiles, middleTiles, topTiles) ==
    CASE layerType = "TRIPLE" -> bottomTiles \o middleTiles \o topTiles
      [] layerType = "NORMAL" -> middleTiles \o topTiles
      [] layerType = "COVERED" -> bottomTiles \o middleTiles
      [] layerType = "SPLIT" -> bottomTiles \o topTiles

\* the entry of the import, lines 119-145: the checks of the image dimensions
ImportBegin ==
    /\ pc = "import"
    /\ UNCHANGED parserLocals
    /\ LET B(cond) == IF cond THEN 1 ELSE 0
           failed ==
               B(bottom.height % METATILE_SIDE_LENGTH # 0)
                 + B(middle.height % METATILE_SIDE_LENGTH # 0)
                 + B(top.height % METATILE_SIDE_LENGTH # 0)
                 + B(bottom.width # METATILE_SIDE_LENGTH * METATILES_IN_ROW)
                 + B(middle.width # METATILE_SIDE_LENGTH * METATILES_IN_ROW)
                 + B(top.width # METATILE_SIDE_LENGTH * METATILES_IN_ROW)
                 + B(bottom.height # middle.height \/ bottom.height # top.height)
           errs == error_layerDimensions(ctx.err, failed)
       IN  /\ ctx' = [ctx EXCEPT !.err = errs]
           /\ IF errs.errCount > 0
              THEN Throw("source layer png dimensions invalid")
              ELSE pc' = "metatiles" /\ err' = ""
    /\ decompiledTiles' = <<>>
    /\ metatileIndex' = 0
    /\ UNCHANGED <<bottom, middle, top, attributesMap, decompiledTileset, compiled,
                   gRecurseCount, locals>>

\* one turn of the loop over the metatiles, lines 153-317
ImportMetatile ==
    /\ pc = "metatiles"
    /\ UNCHANGED parserLocals
    /\ LET widthInMetatiles == bottom.width \div METATILE_SIDE_LENGTH
           heightInMetatiles == bottom.height \div METATILE_SIDE_LENGTH
           bottomTiles == LayerTiles(bottom, "BOTTOM", metatileIndex, widthInMetatiles)
           middleTiles == LayerTiles(middle, "MIDDLE", metatileIndex, widthInMetatiles)
           topTiles == LayerTiles(top, "TOP", metatileIndex, widthInMetatiles)
           inferred ==
               IF ctx.compilerConfig.tripleLayer
               THEN [errs |-> ctx.err, layerType |-> "TRIPLE"]
               ELSE layerBitsetToLayerType(ctx.err,
                        MetatileLayerBitset(ctx.compilerConfig.transparencyColor,
                                            bottomTiles, middleTiles, topTiles))
           type == inferred.layerType
           b == WithLayerType(bottomTiles, type)
           m == WithLayerType(middleTiles, type)
           t == WithLayerType(topTiles, type)
       IN  /\ metatileIndex < widthInMetatiles * heightInMetatiles
           /\ ctx' = [ctx EXCEPT !.err = inferred.errs]
           /\ decompiledTiles' = decompiledTiles \o PushedTiles(type, b, m, t)
    /\ metatileIndex' = metatileIndex + 1
    /\ UNCHANGED <<bottom, middle, top, attributesMap, pc, err, decompiledTileset,
                   compiled, gRecurseCount, locals>>

\* after the loop, lines 319-332: the unused attributes, the errors, the return.
\* metatileCount - 1 is a std::size_t: of no metatile it is the largest one, which
\* no metatileId exceeds
ImportEnd ==
    /\ pc = "metatiles"
    /\ UNCHANGED parserLocals
    /\ LET widthInMetatiles == bottom.width \div METATILE_SIDE_LENGTH
           heightInMetatiles == bottom.height \div METATILE_SIDE_LENGTH
           metatileCount ==
               Len(decompiledTiles) \div (IF ctx.compilerConfig.tripleLayer THEN 12 ELSE 8)
           unused == IF metatileCount = 0 THEN {}
                     ELSE {metatileId \in DOMAIN attributesMap :
                               metatileId > metatileCount - 1}
           errs == warn_unusedAttribute(ctx.err, Cardinality(unused))
       IN  /\ ~(metatileIndex < widthInMetatiles * heightInMetatiles)
           /\ ctx' = [ctx EXCEPT !.err = errs]
           /\ IF errs.errCount > 0
              THEN Throw("errors generated during layered tile import")
              ELSE pc' = "imported" /\ err' = ""
    /\ UNCHANGED <<bottom, middle, top, attributesMap, decompiledTiles, metatileIndex,
                   decompiledTileset, compiled, gRecurseCount, locals>>

(***************************************************************************)
(* The layer images of the import.  In each metatile a layer is either     *)
(* transparent or holds one pixel of content: bottom in subtile 0, middle  *)
(* in subtile 1, top in subtile 0 of the even metatiles and in subtile 3   *)
(* of the odd ones, the rest of top's tile being alpha-transparent.  The   *)
(* first row of metatiles takes every combination; a further row repeats   *)
(* the row above it, turned by one metatile.                               *)
(***************************************************************************)
NumMetatileRows == 1

\* the image of numRows rows of metatiles: metatile m holds color at one pixel
\* of subtile subtiles[m + 1] when has[m + 1], and fill in the rest of that tile
LayerPng(numRows, has, subtiles, pixel, color, fill) ==
    [width  |-> METATILE_SIDE_LENGTH * METATILES_IN_ROW,
     height |-> METATILE_SIDE_LENGTH * numRows,
     rows   |->
        [r \in 0..(METATILE_SIDE_LENGTH * numRows - 1) |->
            [c \in 0..(METATILE_SIDE_LENGTH * METATILES_IN_ROW - 1) |->
                LET m == (r \div METATILE_SIDE_LENGTH) * METATILES_IN_ROW
                             + (c \div METATILE_SIDE_LENGTH)
                    st == ((r % METATILE_SIDE_LENGTH) \div TILE_SIDE_LENGTH)
                              * METATILE_TILE_SIDE_LENGTH
                              + ((c % METATILE_SIDE_LENGTH) \div TILE_SIDE_LENGTH)
                    px == (r % TILE_SIDE_LENGTH) * TILE_SIDE_LENGTH + (c % TILE_SIDE_LENGTH)
                IN  IF has[m + 1] /\ st = subtiles[m + 1]
                    THEN IF px = pixel THEN color ELSE fill
                    ELSE RGBA_MAGENTA]]]

\* the image without its last row of pixels
CroppedPng(png) ==
    [png EXCEPT !.height = @ - 1,
                !.rows = [r \in 0..(png.height - 2) |-> png.rows[r]]]

\* the image without its last column of pixels
NarrowedPng(png) ==
    [png EXCEPT !.width = @ - 1,
                !.rows = [r \in DOMAIN png.rows |->
                             [c \in 0..(png.width - 2) |-> png.rows[r][c]]]]

\* which metatiles of numRows rows hold content, given which of the first row
\* do: each further row is the row above it turned by one metatile
RowsOf(hasInRow, numRows) ==
    [k \in 1..(METATILES_IN_ROW * numRows) |->
        hasInRow[((((k - 1) % METATILES_IN_ROW) + ((k - 1) \div METATILES_IN_ROW))
                      % METATILES_IN_ROW) + 1]]

\* the layer images of numRows rows of metatiles
LayeredPngs(numRows) ==
    LET numMetatiles == METATILES_IN_ROW * numRows
        Has == [1..METATILES_IN_ROW -> BOOLEAN]
    IN  {[bottom |-> LayerPng(numRows, RowsOf(hb, numRows),
                              [k \in 1..numMetatiles |-> 0], 0,
                              RGBA_RED, RGBA_MAGENTA),
          middle |-> LayerPng(numRows, RowsOf(hm, numRows),
                              [k \in 1..numMetatiles |-> 1], TILE_NUM_PIX - 1,
                              RGBA_GREEN, RGBA_MAGENTA),
          top    |-> LayerPng(numRows, RowsOf(ht, numRows),
                              [k \in 1..numMetatiles |-> IF k % 2 = 1 THEN 0 ELSE 3], 0,
                              RGBA_BLUE, RGBA_CLEAR)] :
            hb \in Has, hm \in Has, ht \in Has}

\* images of dimensions the import rejects: a top image a row short, a
\* bottom image a column short
InvalidPngs ==
    LET pngs == CHOOSE i \in LayeredPngs(NumMetatileRows) :
                    i.bottom.rows[0][0] = RGBA_RED
    IN  {[pngs EXCEPT !.top = CroppedPng(pngs.top)],
         [pngs EXCEPT !.bottom = NarrowedPng(pngs.bottom)]}

ImportInputs ==
    UNION {LayeredPngs(numRows) : numRows \in 0..NumMetatileRows} \cup InvalidPngs

\* attributes of the first metatile and of one past the last
AttributesMapInputs ==
    LET entry == [AttributesDefault EXCEPT !.metatileBehavior = 1,
                                           !.terrainType = "GRASS",
                                           !.encounterType = "LAND"]
    IN  {EmptyMap,
         [id \in {0, METATILES_IN_ROW * NumMetatileRows} |-> entry]}

InitImport ==
    /\ \E tripleLayer \in BOOLEAN :
          ctx = [PtContext("PRIMARY", NoTileset) EXCEPT
                    !.compilerConfig.tripleLayer = tripleLayer]
    /\ \E pngs \in ImportInputs :
          bottom = pngs.bottom /\ middle = pngs.middle /\ top = pngs.top
    /\ attributesMap \in AttributesMapInputs
    /\ decompiledTiles = <<>>
    /\ metatileIndex = 0
    /\ ParserIdle
    /\ pc = "import"
    /\ err = ""
    /\ decompiledTileset = <<>>
    /\ compiled = CompiledTilesetEmpty
    /\ gRecurseCount = 0
    /\ LocalsInit

NextImport ==
    \/ ImportBegin
    \/ ImportMetatile
    \/ ImportEnd

SpecImport == InitImport /\ [][NextImport]_vars

(***************************************************************************)
(* The warning options of parseCompile (src/src/cli_parser.cpp 355-395,    *)
(* 470-537, 566-606, 643-653).  An element of argv is what getopt_long_only*)
(* makes of one option: the value it returns and optarg.  The command      *)
(* lines hold warning options only and have their path arguments; the      *)
(* fieldmap options are not among them.                                    *)
(***************************************************************************)
NULL == "NULL"
WARN_COLOR_PRECISION_LOSS == "color-precision-loss"
WARN_KEY_FRAME_DID_NOT_APPEAR == "key-frame-did-not-appear"
WARN_USED_TRUE_COLOR_MODE == "used-true-color-mode"
WARN_ATTRIBUTE_FORMAT_MISMATCH == "attribute-format-mismatch"
WARN_MISSING_ATTRIBUTES_CSV == "missing-attributes-csv"
WARN_MISSING_BEHAVIORS_HEADER == "missing-behaviors-header"

Option(opt, optarg) == [opt |-> opt, optarg |-> optarg]

\* the names of the warning modes of ErrorsAndWarnings
WarningNames ==
    {"colorPrecisionLoss", "keyFrameTileDidNotAppearInAssignment", "usedTrueColorMode",
     "attributeFormatMismatch", "missingAttributesCsv", "missingBehaviorsHeader"}

\* ErrorsAndWarnings::setAllWarnings(mode)
setAllWarnings(errs, mode) ==
    [f \in DOMAIN errs |-> IF f \in WarningNames THEN mode ELSE errs[f]]

\* ErrorsAndWarnings::setAllEnabledWarningsToErrors()
setAllEnabledWarningsToErrors(errs) ==
    [f \in DOMAIN errs |-> IF f \in WarningNames /\ errs[f] = "WARN" THEN "ERR" ELSE errs[f]]

\* warn_usedTrueColorMode: a warning when the mode is WARN, an error when it is ERR
warn_usedTrueColorMode(errs) ==
    IF errs.usedTrueColorMode = "ERR" THEN [errs EXCEPT !.errCount = @ + 1]
    ELSE IF errs.usedTrueColorMode = "WARN" THEN [errs EXCEPT !.warnCount = @ + 1]
    ELSE errs

\* the -Werror=<name> and -Wno-error=<name> cases: the variable of the warning
\* named is set to value; a name that is no warning's is fatal
SetErrOption(opts, optarg, value) ==
    IF optarg = WARN_COLOR_PRECISION_LOSS
    THEN [options |-> [opts EXCEPT !.errColorPrecisionLoss = value], outcome |-> ""]
    ELSE IF optarg = WARN_KEY_FRAME_DID_NOT_APPEAR
    THEN [options |-> [opts EXCEPT !.errKeyFrameTileDidNotAppearInAssignment = value],
          outcome |-> ""]
    ELSE IF optarg = WARN_USED_TRUE_COLOR_MODE
    THEN [options |-> [opts EXCEPT !.errUsedTrueColorMode = value], outcome |-> ""]
    ELSE IF optarg = WARN_ATTRIBUTE_FORMAT_MISMATCH
    THEN [options |-> [opts EXCEPT !.errAttributeFormatMismatch = value], outcome |-> ""]
    ELSE IF optarg = WARN_MISSING_ATTRIBUTES_CSV
    THEN [options |-> [opts EXCEPT !.errMissingAttributesCsv = value], outcome |-> ""]
    ELSE IF optarg = WARN_MISSING_BEHAVIORS_HEADER
    THEN [options |-> [opts EXCEPT !.errMissingBehaviorsHeader = value], outcome |-> ""]
    ELSE [options |-> opts, outcome |-> "fatal"]

\* a switch that applies -Wnone to the warning variables at once
HandleOptionEagerly(opts, o) ==
    IF o.opt = "WALL_VAL"
    THEN [options |-> [opts EXCEPT !.enableAllWarnings = TRUE], outcome |-> ""]
    ELSE IF o.opt = "WNONE_VAL"
    THEN [options |-> [opts EXCEPT !.disableAllWarnings = TRUE,
                                   !.warnColorPrecisionLoss = FALSE,
                                   !.errColorPrecisionLoss = FALSE],
          outcome |-> ""]
    ELSE IF o.opt = "WERROR_VAL"
    THEN IF o.optarg = NULL
         THEN [options |-> [opts EXCEPT !.setAllEnabledWarningsToErrors = TRUE],
               outcome |-> ""]
         ELSE SetErrOption(opts, o.optarg, TRUE)
    ELSE IF o.opt = "WNO_ERROR_VAL"
    THEN SetErrOption(opts, o.optarg, FALSE)
    ELSE IF o.opt = "W_COLOR_PRECISION_LOSS_VAL"
    THEN [options |-> [opts EXCEPT !.warnColorPrecisionLoss = TRUE], outcome |-> ""]
    ELSE IF o.opt = "W_NO_COLOR_PRECISION_LOSS_VAL"
    THEN [options |-> [opts EXCEPT !.warnColorPrecisionLoss = FALSE], outcome |-> ""]
    ELSE [options |-> opts, outcome |-> "usage"]

\* the switch over the value of getopt_long_only, lines 470-537: the warning
\* variables after the option, and whether the option ends the program
HandleOption(opts, o) ==
    IF o.opt = "WALL_VAL"
    THEN [options |-> [opts EXCEPT !.enableAllWarnings = TRUE], outcome |-> ""]
    ELSE IF o.opt = "WNONE_VAL"
    THEN [options |-> [opts EXCEPT !.disableAllWarnings = TRUE], outcome |-> ""]
    ELSE IF o.opt = "WERROR_VAL"
    THEN IF o.optarg = NULL
         THEN [options |-> [opts EXCEPT !.setAllEnabledWarningsToErrors = TRUE],
               outcome |-> ""]
         ELSE SetErrOption(opts, o.optarg, TRUE)
    ELSE IF o.opt = "WNO_ERROR_VAL"
    THEN SetErrOption(opts, o.optarg, FALSE)
    ELSE IF o.opt = "W_COLOR_PRECISION_LOSS_VAL"
    THEN [options |-> [opts EXCEPT !.warnColorPrecisionLoss = TRUE], outcome |-> ""]
    ELSE IF o.opt = "W_NO_COLOR_PRECISION_LOSS_VAL"
    THEN [options |-> [opts EXCEPT !.warnColorPrecisionLoss = FALSE], outcome |-> ""]
    ELSE [options |-> opts, outcome |-> "usage"]

\* lines 566-606: the warning modes of ctx.err the warning variables lead to
ConfigureWarnings(errs, opts) ==
    LET e1 == IF opts.enableAllWarnings THEN setAllWarnings(errs, "WARN") ELSE errs
        e2 == IF opts.disableAllWarnings THEN setAllWarnings(e1, "OFF") ELSE e1
        e3 == IF opts.warnColorPrecisionLoss
              THEN [e2 EXCEPT !.colorPrecisionLoss = "WARN"] ELSE e2
        e4 == IF opts.errColorPrecisionLoss
              THEN [e3 EXCEPT !.colorPrecisionLoss = "ERR"] ELSE e3
        e5 == IF opts.errKeyFrameTileDidNotAppearInAssignment
              THEN [e4 EXCEPT !.keyFrameTileDidNotAppearInAssignment = "ERR"] ELSE e4
        e6 == IF opts.errUsedTrueColorMode
              THEN [e5 EXCEPT !.usedTrueColorMode = "ERR"] ELSE e5
        e7 == IF opts.errAttributeFormatMismatch
              THEN [e6 EXCEPT !.attributeFormatMismatch = "ERR"] ELSE e6
        e8 == IF opts.errMissingAttributesCsv
              THEN [e7 EXCEPT !.missingAttributesCsv = "ERR"] ELSE e7
        e9 == IF opts.errMissingBehaviorsHeader
              THEN [e8 EXCEPT !.missingBehaviorsHeader = "ERR"] ELSE e8
    IN  IF opts.setAllEnabledWarningsToErrors THEN setAllEnabledWarningsToErrors(e9) ELSE e9

\* one turn of the loop over getopt_long_only, lines 414-548
ParseOption ==
    /\ pc = "options"
    /\ optind <= Len(argv)
    /\ LET r == HandleOption(options, argv[optind])
       IN  /\ options' = r.options
           /\ IF r.outcome = "fatal"
              THEN Throw("invalid argument for option")
              ELSE IF r.outcome = "usage"
              THEN pc' = "exited" /\ err' = ""
              ELSE UNCHANGED <<pc, err>>
    /\ optind' = optind + 1
    /\ UNCHANGED <<argv, ctx, importerLocals, decompiledTileset, compiled, gRecurseCount,
                   locals>>

\* after the loop, lines 566-606 and 643-653: the warnings are configured, the
\* use of true color is warned of, and errors end the program
ParseEnd ==
    /\ pc = "options"
    /\ optind > Len(argv)
    /\ LET configured == ConfigureWarnings(ctx.err, options)
           errs == IF configured.usedTrueColorMode # "OFF"
                          /\ ctx.output.paletteMode = "TRUE_COLOR"
                   THEN warn_usedTrueColorMode(configured)
                   ELSE configured
       IN  /\ ctx' = [ctx EXCEPT !.err = errs]
           /\ IF errs.errCount > 0
              THEN Throw("Errors generated during command line parsing. Compilation terminated.")
              ELSE pc' = "parsed" /\ err' = ""
    /\ UNCHANGED <<parserLocals, importerLocals, decompiledTileset, compiled,
                   gRecurseCount, locals>>

MaxArgs == 3

\* the warning options of the command lines: the general ones, the ones of a
\* warning, one with a name that is no warning's, and one that is no option
GeneralOptions ==
    {Option("WALL_VAL", NULL), Option("WNONE_VAL", NULL), Option("WERROR_VAL", NULL)}

SpecificOptions ==
    {Option("W_COLOR_PRECISION_LOSS_VAL", NULL),
     Option("W_NO_COLOR_PRECISION_LOSS_VAL", NULL),
     Option("WERROR_VAL", WARN_COLOR_PRECISION_LOSS),
     Option("WNO_ERROR_VAL", WARN_COLOR_PRECISION_LOSS),
     Option("WERROR_VAL", WARN_USED_TRUE_COLOR_MODE)}

WarningOptions ==
    GeneralOptions \cup SpecificOptions
        \cup {Option("WERROR_VAL", "no-such-warning"), Option("?", NULL)}

CommandLines == UNION {[1..n -> WarningOptions] : n \in 0..MaxArgs}

InitParse ==
    /\ \E paletteMode \in {"GREYSCALE", "TRUE_COLOR"} :
          ctx = [PtContext("PRIMARY", NoTileset) EXCEPT !.output.paletteMode = paletteMode]
    /\ argv \in CommandLines
    /\ optind = 1
    /\ options = WarningOptionsInit
    /\ ImporterIdle
    /\ pc = "options"
    /\ err = ""
    /\ decompiledTileset = <<>>
    /\ compiled = CompiledTilesetEmpty
    /\ gRecurseCount = 0
    /\ LocalsInit

NextParse ==
    \/ ParseOption
    \/ ParseEnd

SpecParse == InitParse /\ [][NextParse]_vars

(***************************************************************************)
(* Properties.                                                             *)
(***************************************************************************)
Secondary == ctx.compilerConfig.mode = "SECONDARY"
PairedPrimaryTiles == ctx.compilerContext.pairedPrimaryTiles
Returned == pc = "done"
TileIdxs == 1..Len(decompiledTileset)
PixIdxs == 0..(TILE_NUM_PIX - 1)

\* a pixel the source tile leaves transparent
SourceTransparent(rgba) ==
    rgba.alpha = ALPHA_TRANSPARENT \/ rgba = ctx.compilerConfig.transparencyColor

\* does tileIndex refer to a tile, and to which
RefersToTile(tileIndex) ==
    IF ~Secondary THEN tileIndex < Len(compiled.tiles)
    ELSE IF tileIndex < ctx.fieldmapConfig.numTilesInPrimary
    THEN tileIndex < Len(PairedPrimaryTiles.tiles)
    ELSE tileIndex - ctx.fieldmapConfig.numTilesInPrimary < Len(compiled.tiles)

ReferredTile(tileIndex) ==
    IF ~Secondary THEN At(compiled.tiles, tileIndex)
    ELSE IF tileIndex < ctx.fieldmapConfig.numTilesInPrimary
    THEN At(PairedPrimaryTiles.tiles, tileIndex)
    ELSE At(compiled.tiles, tileIndex - ctx.fieldmapConfig.numTilesInPrimary)

\* the palette index the referred tile, flipped by the assignment's flags, has
\* where the source tile has its pixel i
ReconstructedIndex(a, i) ==
    LET row == i \div TILE_SIDE_LENGTH
        col == i % TILE_SIDE_LENGTH
        flippedRow == IF a.vFlip THEN TILE_SIDE_LENGTH - 1 - row ELSE row
        flippedCol == IF a.hFlip THEN TILE_SIDE_LENGTH - 1 - col ELSE col
    IN  ReferredTile(a.tileIndex)[flippedRow * TILE_SIDE_LENGTH + flippedCol]

\* C1: in every compiled tileset that compile returns, primary or secondary,
\* each source tile is reproduced by its assignment: the tile that tileIndex
\* refers to (a tile of the paired primary when tileIndex < numTilesInPrimary
\* in secondary mode), flipped by (hFlip, vFlip) and read through
\* palettes[paletteIndex], has the BGR15 color of every non-transparent source
\* pixel and index 0 at every transparent source pixel.
C1_AssignmentsReconstructSource ==
    Returned =>
        /\ Len(compiled.assignments) = Len(decompiledTileset)
        /\ \A idx \in TileIdxs :
              LET a == compiled.assignments[idx]
              IN  /\ RefersToTile(a.tileIndex)
                  /\ a.paletteIndex < Len(compiled.palettes)
                  /\ \A i \in PixIdxs :
                        LET pixel == decompiledTileset[idx][i]
                            index == ReconstructedIndex(a, i)
                        IN  IF SourceTransparent(pixel) THEN index = 0
                            ELSE At(compiled.palettes, a.paletteIndex).colors[index]
                                     = rgbaToBgr(pixel)

\* C1 witness: a returned secondary tileset where one source tile is drawn with a
\* flipped non-transparent tile of the primary and another with a flipped tile of
\* its own, through a palette of its own
C1_Witness ==
    /\ Returned
    /\ Secondary
    /\ \E idx \in TileIdxs :
          LET a == compiled.assignments[idx]
          IN  /\ a.tileIndex > 0
              /\ a.tileIndex < ctx.fieldmapConfig.numTilesInPrimary
              /\ a.hFlip \/ a.vFlip
    /\ \E idx \in TileIdxs :
          LET a == compiled.assignments[idx]
          IN  /\ a.tileIndex >= ctx.fieldmapConfig.numTilesInPrimary
              /\ a.paletteIndex >= ctx.fieldmapConfig.numPalettesInPrimary
              /\ a.hFlip \/ a.vFlip

\* C2: when a root call of assign on K empty hardware palettes and a list U of
\* color sets of at most PAL_SIZE - 1 colors each returns true, the solution
\* holds exactly K color sets, each of at most PAL_SIZE - 1 colors, and every
\* color set of U is a subset of a solution set or of a primary palette's
\* color set.
C2_AssignSolutionCoversUnassigned ==
    (/\ pc = "palettes"
     /\ \A k \in 1..Len(state.hardwarePalettes) : state.hardwarePalettes[k] = {}
     /\ \A j \in 1..Len(state.unassigned) : count(state.unassigned[j]) <= PAL_SIZE - 1)
    => /\ Len(assignedPalsSolution) = Len(state.hardwarePalettes)
       /\ \A k \in 1..Len(assignedPalsSolution) :
             count(assignedPalsSolution[k]) <= PAL_SIZE - 1
       /\ \A j \in 1..Len(state.unassigned) :
             \/ \E k \in 1..Len(assignedPalsSolution) :
                   state.unassigned[j] \subseteq assignedPalsSolution[k]
             \/ \E k \in 1..Len(primaryPaletteColorSets) :
                   state.unassigned[j] \subseteq primaryPaletteColorSets[k]

\* C2 witness: a successful call on two hardware palettes and three color sets,
\* one of them covered by the primary palette alone, that fills a palette
C2_Witness ==
    /\ pc = "palettes"
    /\ Len(state.hardwarePalettes) = 2
    /\ Len(state.unassigned) = MaxUnassigned
    /\ \E j \in 1..Len(state.unassigned) :
          /\ \E k \in 1..Len(primaryPaletteColorSets) :
                state.unassigned[j] \subseteq primaryPaletteColorSets[k]
          /\ \A k \in 1..Len(assignedPalsSolution) :
                ~(state.unassigned[j] \subseteq assignedPalsSolution[k])
    /\ \E k \in 1..Len(assignedPalsSolution) :
          count(assignedPalsSolution[k]) = PAL_SIZE - 1

\* the key of a normalized tile
NormalizedKey(tile) == <<tile.pixels, tile.palette>>

\* C3: normalization commutes with flips: a tile and any horizontal and/or
\* vertical flip of it normalize to the same (pixel buffer, palette) key.
C3_NormalizeCommutesWithFlips ==
    (pc = "colorIndex" /\ Len(indexedNormTiles) = 2)
    => NormalizedKey(At(indexedNormTiles, 0).tile) = NormalizedKey(At(indexedNormTiles, 1).tile)

\* C4 as stated: in every returned tileset, primary or secondary, tiles[0] is
\* the all-zero tile and paletteIndexesOfTile[0] is 0.
C4_TileZeroTransparentInBothModes ==
    Returned =>
        /\ Len(compiled.tiles) >= 1
        /\ At(compiled.tiles, 0) = [i \in PixIdxs |-> 0]
        /\ Len(compiled.paletteIndexesOfTile) >= 1
        /\ At(compiled.paletteIndexesOfTile, 0) = 0

\* C4, amended: in every tileset returned in primary mode, tiles[0] is the
\* all-zero tile and paletteIndexesOfTile[0] is 0; a tileset returned in
\* secondary mode holds no all-zero tile at all, and each of its fully
\* transparent source tiles is assigned tile 0 of the primary.
C4_TileZeroTransparentInPrimary ==
    Returned =>
        IF ~Secondary
        THEN /\ Len(compiled.tiles) >= 1
             /\ At(compiled.tiles, 0) = [i \in PixIdxs |-> 0]
             /\ Len(compiled.paletteIndexesOfTile) >= 1
             /\ At(compiled.paletteIndexesOfTile, 0) = 0
        ELSE /\ \A p \in 1..Len(compiled.tiles) : compiled.tiles[p] # [i \in PixIdxs |-> 0]
             /\ \A idx \in TileIdxs :
                   (\A i \in PixIdxs : SourceTransparent(decompiledTileset[idx][i]))
                   => compiled.assignments[idx].tileIndex = 0

\* C4 witness: a returned primary tileset with a tile after tile 0 that uses
\* another palette than palette 0
C4_Witness ==
    /\ Returned
    /\ ~Secondary
    /\ Len(compiled.tiles) >= 2
    /\ \E p \in 2..Len(compiled.paletteIndexesOfTile) : compiled.paletteIndexesOfTile[p] # 0

\* C5: in every returned tileset no two tiles are equal, and tileIndexes maps
\* each tiles[i] to i and has exactly as many entries as tiles.
C5_TilesUniqueAndIndexed ==
    Returned =>
        /\ \A p, q \in 1..Len(compiled.tiles) :
              p # q => compiled.tiles[p] # compiled.tiles[q]
        /\ \A p \in 1..Len(compiled.tiles) :
              /\ compiled.tiles[p] \in DOMAIN compiled.tileIndexes
              /\ compiled.tileIndexes[compiled.tiles[p]] = p - 1
        /\ Cardinality(DOMAIN compiled.tileIndexes) = Len(compiled.tiles)

\* C5 witness: a returned secondary tileset in which two different source tiles
\* share one tile of the secondary's own
C5_Witness ==
    /\ Returned
    /\ Secondary
    /\ \E idx1, idx2 \in TileIdxs :
          /\ decompiledTileset[idx1] # decompiledTileset[idx2]
          /\ compiled.assignments[idx1].tileIndex = compiled.assignments[idx2].tileIndex
          /\ compiled.assignments[idx1].tileIndex >= ctx.fieldmapConfig.numTilesInPrimary

\* the color set of the colors in slots 1 .. size-1 of a compiled palette
PaletteColorSet(palette) == {colorToIndex[palette.colors[s]] : s \in 1..(palette.size - 1)}

\* C6: a returned secondary tileset has exactly numPalettesTotal palettes; the
\* first numPalettesInPrimary have, in every slot, the color of the same slot
\* of the same palette of the paired primary; the others hold, in solution
\* order, the colors of the solution's color sets.
C6_SecondaryPalettes ==
    (Returned /\ Secondary) =>
        LET fc == ctx.fieldmapConfig
        IN  /\ Len(compiled.palettes) = fc.numPalettesTotal
            /\ \A p \in 0..(fc.numPalettesInPrimary - 1) :
                  \A s \in 0..(PAL_SIZE - 1) :
                      At(compiled.palettes, p).colors[s]
                          = At(PairedPrimaryTiles.palettes, p).colors[s]
            /\ \A k \in 0..(fc.numPalettesTotal - fc.numPalettesInPrimary - 1) :
                  /\ k < Len(assignedPalsSolution)
                  /\ PaletteColorSet(At(compiled.palettes, fc.numPalettesInPrimary + k))
                         = At(assignedPalsSolution, k)

\* C6 witness: a returned secondary tileset whose primary has a full palette and
\* whose own palette holds a color
C6_Witness ==
    /\ Returned
    /\ Secondary
    /\ \E p \in 1..Len(PairedPrimaryTiles.palettes) :
          PairedPrimaryTiles.palettes[p].size = PAL_SIZE
    /\ \E k \in 1..Len(assignedPalsSolution) : assignedPalsSolution[k] # {}

\* C7: in a returned secondary tileset, for every source tile: when the tile
\* built for it is a key of the primary's tileIndexes, the assignment holds that
\* primary index and the tile is not among the secondary's tiles; otherwise the
\* tile is at some position p of the secondary's tiles and the assignment holds
\* p + numTilesInPrimary.
C7_SecondaryTileIndexes ==
    (Returned /\ Secondary) =>
        \A idx \in TileIdxs :
            LET a == compiled.assignments[idx]
                normTile == indexedNormTilesWithColorSets[idx].tile
                gbaTile == makeTile(normTile, At(compiled.palettes, a.paletteIndex)).tile
            IN  IF gbaTile \in DOMAIN PairedPrimaryTiles.tileIndexes
                THEN /\ a.tileIndex = PairedPrimaryTiles.tileIndexes[gbaTile]
                     /\ \A p \in 1..Len(compiled.tiles) : compiled.tiles[p] # gbaTile
                ELSE \E p \in 0..(Len(compiled.tiles) - 1) :
                        /\ At(compiled.tiles, p) = gbaTile
                        /\ a.tileIndex = p + ctx.fieldmapConfig.numTilesInPrimary

\* C7 witness: a returned secondary tileset with a source tile drawn with a
\* primary tile other than tile 0 and a source tile drawn with a tile of its own
C7_Witness ==
    /\ Returned
    /\ Secondary
    /\ Len(compiled.tiles) >= 1
    /\ \E idx \in TileIdxs :
          /\ compiled.assignments[idx].tileIndex >= 1
          /\ compiled.assignments[idx].tileIndex < Len(PairedPrimaryTiles.tiles)
    /\ \E idx \in TileIdxs :
          compiled.assignments[idx].tileIndex = ctx.fieldmapConfig.numTilesInPrimary

\* where a color first appears in the palettes of the normalized tiles, slot 0 skipped
Appearances(color) ==
    UNION {{(k - 1) * PAL_SIZE + i :
               i \in {j \in 1..(indexedNormTiles[k].tile.palette.size - 1) :
                         indexedNormTiles[k].tile.palette.colors[j] = color}} :
           k \in 1..Len(indexedNormTiles)}
FirstAppearance(color) ==
    CHOOSE x \in Appearances(color) : \A y \in Appearances(color) : x <= y

\* C8: the colorIndexMap of a returned tileset is injective, its values are
\* exactly 0 .. n-1 for its n colors; it holds every (color, index) pair of the
\* paired primary's map (secondary mode), and the other colors are those of the
\* normalized tiles, numbered from the primary map's size (0 in primary mode)
\* upward in the order of their first appearance.
C8_ColorIndexMap ==
    Returned =>
        LET m == compiled.colorIndexMap
            n == Cardinality(DOMAIN m)
            seed == IF Secondary THEN PairedPrimaryTiles.colorIndexMap ELSE EmptyMap
            new == DOMAIN m \ DOMAIN seed
        IN  /\ \A c1, c2 \in DOMAIN m : m[c1] = m[c2] => c1 = c2
            /\ {m[c] : c \in DOMAIN m} = 0..(n - 1)
            /\ \A c \in DOMAIN seed : c \in DOMAIN m /\ m[c] = seed[c]
            /\ \A c \in new : m[c] >= Cardinality(DOMAIN seed) /\ Appearances(c) # {}
            /\ \A k \in 1..Len(indexedNormTiles) :
                  \A i \in 1..(indexedNormTiles[k].tile.palette.size - 1) :
                      indexedNormTiles[k].tile.palette.colors[i] \in DOMAIN m
            /\ \A c1, c2 \in new :
                  FirstAppearance(c1) < FirstAppearance(c2) => m[c1] < m[c2]

\* C8 witness: a returned secondary tileset that adds a color to a primary map
\* of two colors whose indexes are not in the order of the color values
C8_Witness ==
    /\ Returned
    /\ Secondary
    /\ LET seed == PairedPrimaryTiles.colorIndexMap
       IN  /\ Cardinality(DOMAIN seed) = 2
           /\ \E c1, c2 \in DOMAIN seed : c1 < c2 /\ seed[c1] > seed[c2]
           /\ Cardinality(DOMAIN compiled.colorIndexMap) = 3

\* the first of the palettes that compile materializes from the solution
MaterializedFrom == IF Secondary THEN ctx.fieldmapConfig.numPalettesInPrimary ELSE 0

\* C9: in a returned tileset, each palette materialized from a solution color
\* set has the BGR15 transparency color in slot 0, then exactly the colors
\* whose index is in the color set, in ascending index order, in slots 1..N,
\* N at most PAL_SIZE - 1, has size N + 1 and zero in every other slot; a
\* primary compile returns exactly numPalettesInPrimary such palettes.
C9_MaterializedPalettes ==
    Returned =>
        /\ ~Secondary =>
              /\ Len(compiled.palettes) = ctx.fieldmapConfig.numPalettesInPrimary
              /\ Len(assignedPalsSolution) = ctx.fieldmapConfig.numPalettesInPrimary
        /\ Len(compiled.palettes) = MaterializedFrom + Len(assignedPalsSolution)
        /\ \A k \in 1..Len(assignedPalsSolution) :
              LET pal == compiled.palettes[MaterializedFrom + k]
                  N == Cardinality(assignedPalsSolution[k])
              IN  /\ pal.colors[0] = rgbaToBgr(ctx.compilerConfig.transparencyColor)
                  /\ N <= PAL_SIZE - 1
                  /\ pal.size = N + 1
                  /\ \A s \in 1..N : pal.colors[s] \in DOMAIN colorToIndex
                  /\ {colorToIndex[pal.colors[s]] : s \in 1..N} = assignedPalsSolution[k]
                  /\ \A s, t \in 1..N :
                        s < t => colorToIndex[pal.colors[s]] < colorToIndex[pal.colors[t]]
                  /\ \A s \in (N + 1)..(PAL_SIZE - 1) : pal.colors[s] = 0

\* C9 witness: a returned primary tileset with a full palette whose colors are
\* not in the order of their values, and a palette without colors
C9_Witness ==
    /\ Returned
    /\ ~Secondary
    /\ \E p \in 1..Len(compiled.palettes) :
          /\ compiled.palettes[p].size = PAL_SIZE
          /\ compiled.palettes[p].colors[1] > compiled.palettes[p].colors[2]
    /\ \E p \in 1..Len(compiled.palettes) : compiled.palettes[p].size = 1

\* the capacity of the mode, as the claim states it
TileCapacity ==
    IF Secondary
    THEN ctx.fieldmapConfig.numTilesTotal - ctx.fieldmapConfig.numTilesInPrimary
    ELSE ctx.fieldmapConfig.numTilesInPrimary

\* the tiles the compiled tileset has to hold: the tiles built for the source
\* tiles, with the transparent tile in primary mode and without the tiles of
\* the primary in secondary mode
NeededTiles ==
    LET allColorSets == primaryPaletteColorSets \o assignedPalsSolution
        built == {makeTile(t.tile, At(compiled.palettes,
                               FindCoveringPalette(allColorSets, t.colorSet))).tile :
                     t \in {indexedNormTilesWithColorSets[k] :
                               k \in 1..Len(indexedNormTilesWithColorSets)}}
    IN  IF Secondary THEN built \ DOMAIN PairedPrimaryTiles.tileIndexes
        ELSE built \cup {[i \in PixIdxs |-> 0]}

\* C10: compile returns a tileset only if the tiles it has to hold are within
\* the capacity of the mode, numTilesInPrimary in primary mode (tile 0
\* counted) and numTilesTotal - numTilesInPrimary in secondary mode, and then
\* len(tiles) is within it; otherwise it fails with "too many tiles", having
\* appended the first tile beyond the capacity.
C10_TileCapacity ==
    /\ Returned =>
          /\ Len(compiled.tiles) <= TileCapacity
          /\ Cardinality(NeededTiles) <= TileCapacity
    /\ (pc = "failed" /\ err = "too many tiles") =>
          /\ Len(compiled.tiles) = TileCapacity + 1
          /\ Cardinality(NeededTiles) > TileCapacity

\* C10 witness: a secondary compile that fails with "too many tiles" after a
\* primary compile that filled its capacity
C10_Witness ==
    /\ pc = "failed"
    /\ err = "too many tiles"
    /\ Secondary
    /\ Len(PairedPrimaryTiles.tiles) = ctx.fieldmapConfig.numTilesInPrimary

\* the root call of assign of this compile has returned or thrown
AssignReturned ==
    \/ pc \in {"palettes", "tiles", "done"}
    \/ pc = "failed" /\ state.hardwarePalettes # <<>>

\* the color sets can be spread over K hardware palettes of at most
\* PAL_SIZE - 1 colors each, a color set inside a primary palette needing none
Coverable(unassigned, K, primaryPalettes) ==
    \E f \in [1..Len(unassigned) -> 0..K] :
        /\ \A j \in 1..Len(unassigned) :
              f[j] = 0 => \E k \in 1..Len(primaryPalettes) :
                              unassigned[j] \subseteq primaryPalettes[k]
        /\ \A p \in 1..K :
              count(UNION {unassigned[j] : j \in {i \in 1..Len(unassigned) : f[i] = p}})
                  <= PAL_SIZE - 1

Uncoverable ==
    ~Coverable(state.unassigned, Len(state.hardwarePalettes), primaryPaletteColorSets)

\* C11 as stated: color sets that K hardware palettes cannot cover make compile
\* fail with "failed to allocate palettes".
C11_UncoverableFailsToAllocate ==
    (AssignReturned /\ Uncoverable)
    => pc = "failed" /\ err = "failed to allocate palettes"

\* C11: color sets that K hardware palettes cannot cover make compile fail
\* and return no CompiledTileset; the error is "failed to allocate palettes"
\* when the search ended within maxRecurseCount invocations of assign and
\* "too many assignment recurses" when the limit stopped it first.
C11_UncoverableFails ==
    (AssignReturned /\ Uncoverable)
    => /\ pc = "failed"
       /\ assignedPalsSolution = <<>>
       /\ err = IF gRecurseCount > ctx.compilerConfig.maxRecurseCount
                THEN "too many assignment recurses"
                ELSE "failed to allocate palettes"

\* C11 witness: three color sets that two hardware palettes cannot cover, the
\* search exhausted after backtracking
C11_Witness ==
    /\ pc = "failed"
    /\ err = "failed to allocate palettes"
    /\ Uncoverable
    /\ Len(state.hardwarePalettes) = 2
    /\ Len(state.unassigned) = MaxUnassigned
    /\ gRecurseCount > Len(state.unassigned) + 1

\* C12: the root call of assign is one step, taken from every root state; it
\* ends with true, with false ("failed to allocate palettes") or with "too
\* many assignment recurses", having made at least one and at most
\* maxRecurseCount + 1 invocations of assign; it made maxRecurseCount + 1
\* exactly when it ended with "too many assignment recurses", thrown by the
\* invocation that passed the limit before it searched or wrote anything to
\* the solution.
C12_RecursionBounded ==
    AssignReturned =>
        /\ gRecurseCount >= 1
        /\ gRecurseCount <= ctx.compilerConfig.maxRecurseCount + 1
        /\ (gRecurseCount = ctx.compilerConfig.maxRecurseCount + 1)
               <=> (pc = "failed" /\ err = "too many assignment recurses")
        /\ pc = "failed" => /\ assignedPalsSolution = <<>>
                            /\ err \in {"too many assignment recurses",
                                         "failed to allocate palettes"}
        /\ pc # "failed" => err = ""

\* C12 witness: the limit stops a search that backtracked: it allows the
\* invocations that a search without backtracking makes
C12_Witness ==
    /\ pc = "failed"
    /\ err = "too many assignment recurses"
    /\ ctx.compilerConfig.maxRecurseCount >= Len(state.unassigned) + 1
    /\ gRecurseCount = ctx.compilerConfig.maxRecurseCount + 1

\* the color sets that no primary palette contains
NeedHardwarePalette ==
    {colorSets[j] : j \in {i \in 1..Len(colorSets) :
        \A k \in 1..Len(primaryPaletteColorSets) :
            ~(colorSets[i] \subseteq primaryPaletteColorSets[k])}}

\* a search that never has to backtrack: the color sets that need a hardware
\* palette fit into one palette together (as when all tiles share their colors)
NoBacktrackingNeeded == count(UNION NeedHardwarePalette) <= PAL_SIZE - 1

AssignSucceeded ==
    AssignReturned /\ err \notin {"failed to allocate palettes",
                                  "too many assignment recurses"}

ColorIndexReturned == indexedNormTiles # <<>> /\ pc # "colorIndex"

\* the colors the stage has to index: the colors seeded from the primary and
\* the colors of the normalized palettes
IndexedColors ==
    (IF Secondary THEN DOMAIN PairedPrimaryTiles.colorIndexMap ELSE {})
    \cup UNION {{indexedNormTiles[k].tile.palette.colors[i] :
                    i \in 1..(indexedNormTiles[k].tile.palette.size - 1)} :
                k \in 1..Len(indexedNormTiles)}

\* the budget of the mode, as the claim states it
ColorBudget ==
    (PAL_SIZE - 1) * (IF Secondary THEN ctx.fieldmapConfig.numPalettesTotal
                      ELSE ctx.fieldmapConfig.numPalettesInPrimary)

\* C14: the color index stage fails with "too many unique colors" exactly when
\* the number of indexed colors, the colors seeded from the primary counted,
\* exceeds (PAL_SIZE - 1) * numPalettesInPrimary in primary mode and
\* (PAL_SIZE - 1) * numPalettesTotal in secondary mode.
C14_ColorBudget ==
    ColorIndexReturned =>
        ((pc = "failed" /\ err = "too many unique colors")
            <=> Cardinality(IndexedColors) > ColorBudget)

\* normalizeDecompTiles of this compile has returned or thrown
NormalizeReturned ==
    \/ pc = "colorIndex"
    \/ pc = "failed" /\ err \in {"too many unique colors in tile", "invalid alpha value"}

\* the distinct BGR15 colors of the non-transparent pixels of a source tile
TileColors(rgba) == {rgbaToBgr(rgba[i]) : i \in {j \in PixIdxs : ~SourceTransparent(rgba[j])}}

ValidAlpha(rgba) == \A i \in PixIdxs : rgba[i].alpha \in {ALPHA_TRANSPARENT, ALPHA_OPAQUE}

\* the first pixel of a buffer that holds the palette slot
FirstPixelOf(pixels, slot) ==
    CHOOSE i \in PixIdxs : pixels[i] = slot /\ \A j \in 0..(i - 1) : pixels[j] # slot

\* tile holds the colors of rgba, read in the orientation of tile's flips, in
\* the slots 1 .. size - 1 of its palette in the order of their first pixel
InFirstAppearanceOrder(tile, rgba) ==
    LET read == FlipTile(rgba, tile.hFlip, tile.vFlip)
        slots == 1..(tile.palette.size - 1)
    IN  /\ tile.palette.size = 1 + Cardinality(TileColors(rgba))
        /\ tile.palette.colors[0] = rgbaToBgr(ctx.compilerConfig.transparencyColor)
        /\ \A i \in PixIdxs :
              IF SourceTransparent(read[i]) THEN tile.pixels[i] = 0
              ELSE /\ tile.pixels[i] \in slots
                   /\ tile.palette.colors[tile.pixels[i]] = rgbaToBgr(read[i])
        /\ \A a \in slots : \E i \in PixIdxs : tile.pixels[i] = a
        /\ \A a, b \in slots :
              a < b => FirstPixelOf(tile.pixels, a) < FirstPixelOf(tile.pixels, b)

\* C15: tiles whose alpha values are all transparent or opaque normalize
\* successfully when each has at most PAL_SIZE - 1 distinct non-transparent
\* BGR15 colors, the palette slots from 1 on holding the colors in the order
\* in which the returned candidate first meets them; a tile with one color
\* more makes normalization fail with "too many unique colors in tile".
C15_TileColorLimit ==
    (NormalizeReturned /\ \A k \in TileIdxs : ValidAlpha(decompiledTileset[k]))
    => IF \A k \in TileIdxs : Cardinality(TileColors(decompiledTileset[k])) <= PAL_SIZE - 1
       THEN /\ pc = "colorIndex"
            /\ Len(indexedNormTiles) = Len(decompiledTileset)
            /\ \A k \in TileIdxs :
                  InFirstAppearanceOrder(indexedNormTiles[k].tile, decompiledTileset[k])
       ELSE pc = "failed" /\ err = "too many unique colors in tile"

\* C15 witness: a tile that fills its palette, one of its colors met twice,
\* normalized to a flipped candidate
C15_Witness ==
    /\ pc = "colorIndex"
    /\ \E k \in TileIdxs :
          LET tile == indexedNormTiles[k].tile
          IN  /\ tile.palette.size = PAL_SIZE
              /\ tile.hFlip
              /\ \E i, j \in PixIdxs : i # j /\ tile.pixels[i] = tile.pixels[j]
                                        /\ tile.pixels[i] # 0

\* p is lexicographically less than or equal to q
LexLeq(p, q) ==
    \/ p = q
    \/ \E i \in PixIdxs : p[i] < q[i] /\ \A j \in 0..(i - 1) : p[j] = q[j]

\* the candidate of source tile k for the given flips
CandidateOf(k, hFlip, vFlip) ==
    candidate(ctx.compilerConfig.transparencyColor, decompiledTileset[k], hFlip, vFlip).tile

\* C16: a normalized tile whose no-flip candidate is not all-transparent is
\* one of the four flip candidates of its source tile, pixel buffer, palette
\* and flip flags together, and its pixel buffer is lexicographically less
\* than or equal to the pixel buffer of every candidate.
C16_LexicographicMinimum ==
    pc = "colorIndex" =>
        \A k \in TileIdxs :
            LET tile == indexedNormTiles[k].tile
            IN  ~transparent(CandidateOf(k, FALSE, FALSE)) =>
                    /\ tile = CandidateOf(k, tile.hFlip, tile.vFlip)
                    /\ \A h, v \in BOOLEAN :
                          LexLeq(tile.pixels, CandidateOf(k, h, v).pixels)

\* C16 witness: a tile normalized to its both-flips candidate, whose pixel
\* buffer is below the one of the no-flip candidate
C16_Witness ==
    /\ pc = "colorIndex"
    /\ \E k \in TileIdxs :
          LET tile == indexedNormTiles[k].tile
          IN  /\ tile.hFlip /\ tile.vFlip
              /\ tile.palette.size = PAL_SIZE
              /\ tile.pixels # CandidateOf(k, FALSE, FALSE).pixels
              /\ tile.palette # CandidateOf(k, FALSE, FALSE).palette

\* C17: with the second source tile the normal form of the first drawn as an
\* RGBATile through its own palette, normalize succeeds on both and returns
\* the same pixel buffer and the same palette for both.
C17_NormalizeIdempotent ==
    (pc \notin {"start", "normalize"}
        /\ decompiledTileset[2] =
               Render(ctx.compilerConfig.transparencyColor,
                      normalize(ctx.compilerConfig.transparencyColor,
                                decompiledTileset[1]).tile))
    => /\ pc = "colorIndex"
       /\ NormalizedKey(indexedNormTiles[2].tile) = NormalizedKey(indexedNormTiles[1].tile)

\* C17 witness: a tile of two colors whose normal form is a flipped candidate
\* and differs from the tile, normalized again to the same tile
C17_Witness ==
    /\ pc = "colorIndex"
    /\ indexedNormTiles[1].tile.hFlip
    /\ indexedNormTiles[1].tile.palette.size = PAL_SIZE
    /\ decompiledTileset[2] # decompiledTileset[1]
    /\ ~indexedNormTiles[2].tile.hFlip /\ ~indexedNormTiles[2].tile.vFlip
    /\ NormalizedKey(indexedNormTiles[2].tile) = NormalizedKey(indexedNormTiles[1].tile)

\* a source tile whose pixels are all transparent
FullyTransparent(rgba) == \A i \in PixIdxs : SourceTransparent(rgba[i])

\* C20: in a returned compile, of either mode, every fully transparent source
\* tile has been normalized to its no-flip candidate, all pixels zero and
\* the palette holding the transparency color alone, and has the assignment
\* (tileIndex 0, paletteIndex 0, hFlip false, vFlip false).
C20_TransparentTileAssignment ==
    Returned =>
        \A k \in TileIdxs :
            FullyTransparent(decompiledTileset[k]) =>
                /\ indexedNormTiles[k].tile = CandidateOf(k, FALSE, FALSE)
                /\ transparent(indexedNormTiles[k].tile)
                /\ indexedNormTiles[k].tile.palette.size = 1
                /\ compiled.assignments[k] =
                       [tileIndex |-> 0, paletteIndex |-> 0,
                        hFlip |-> FALSE, vFlip |-> FALSE]

\* C20 witness: a returned secondary compile of a fully transparent tile and
\* a tile of its own, the transparent tile not among the tiles it holds
C20_Witness ==
    /\ Returned
    /\ Secondary
    /\ \E k \in TileIdxs : FullyTransparent(decompiledTileset[k])
    /\ Len(compiled.tiles) >= 1
    /\ \A j \in 1..Len(compiled.tiles) : compiled.tiles[j] # GBA_TILE_TRANSPARENT
    /\ \E k \in TileIdxs : compiled.assignments[k].paletteIndex > 0

\* the number of metatiles the layer images hold
NumMetatiles ==
    (bottom.width \div METATILE_SIDE_LENGTH) * (bottom.height \div METATILE_SIDE_LENGTH)

\* the import got past the checks of the image dimensions
ImportStarted ==
    pc = "metatiles" \/ pc = "imported"
        \/ (pc = "failed" /\ err = "errors generated during layered tile import")

\* the layer image has a non-transparent pixel in subtile position st of metatile m
SubtileHasContent(png, m, st) ==
    LET widthInMetatiles == png.width \div METATILE_SIDE_LENGTH
        r0 == (m \div widthInMetatiles) * METATILE_SIDE_LENGTH
                  + (st \div METATILE_TILE_SIDE_LENGTH) * TILE_SIDE_LENGTH
        c0 == (m % widthInMetatiles) * METATILE_SIDE_LENGTH
                  + (st % METATILE_TILE_SIDE_LENGTH) * TILE_SIDE_LENGTH
    IN  \E dr \in 0..(TILE_SIDE_LENGTH - 1), dc \in 0..(TILE_SIDE_LENGTH - 1) :
            ~SourceTransparent(png.rows[r0 + dr][c0 + dc])

Subtiles == 0..(METATILE_TILE_SIDE_LENGTH * METATILE_TILE_SIDE_LENGTH - 1)

\* the OR, over the subtile positions of metatile m, of the bits (bottom,
\* middle, top has non-transparent content)
LayerBits(m) ==
    <<\E st \in Subtiles : SubtileHasContent(bottom, m, st),
      \E st \in Subtiles : SubtileHasContent(middle, m, st),
      \E st \in Subtiles : SubtileHasContent(top, m, st)>>

\* the table of the dual-layer inference
LayerTypeOfBits(bits) ==
    CASE bits = <<FALSE, FALSE, FALSE>> -> "NORMAL"
      [] bits = <<TRUE, FALSE, FALSE>> -> "COVERED"
      [] bits = <<FALSE, TRUE, FALSE>> -> "NORMAL"
      [] bits = <<FALSE, FALSE, TRUE>> -> "NORMAL"
      [] bits = <<FALSE, TRUE, TRUE>> -> "NORMAL"
      [] bits = <<TRUE, TRUE, FALSE>> -> "COVERED"
      [] bits = <<TRUE, FALSE, TRUE>> -> "SPLIT"
      [] bits = <<TRUE, TRUE, TRUE>> -> "error"

\* the positions, in decompiledTiles, of the tiles emitted for metatile m
EmittedTiles(m) == {i \in DOMAIN decompiledTiles : decompiledTiles[i].metatileIndex = m}

\* the metatiles the loop has been through
ImportedMetatiles == 0..(metatileIndex - 1)

\* the metatiles with non-transparent content on all three layers
AllThreeLayers(metatiles) == {m \in metatiles : LayerBits(m) = <<TRUE, TRUE, TRUE>>}

\* C18: with triple-layer mode off, every metatile the import has been through,
\* other than one with content on all three layers, has emitted tiles, and each
\* of them carries the LayerType the table gives for the OR, over the four
\* subtile positions, of the bits (bottom, middle, top has content).
C18_LayerTypeInference ==
    (ImportStarted /\ ~ctx.compilerConfig.tripleLayer) =>
        \A m \in ImportedMetatiles :
            LayerBits(m) # <<TRUE, TRUE, TRUE>> =>
                /\ EmittedTiles(m) # {}
                /\ \A i \in EmittedTiles(m) :
                       decompiledTiles[i].attributes.layerType = LayerTypeOfBits(LayerBits(m))

\* C18 witness: a returned dual-layer import that typed one metatile COVERED and
\* another SPLIT, the SPLIT one holding its bottom and its top content at
\* different subtile positions
C18_Witness ==
    /\ pc = "imported"
    /\ ~ctx.compilerConfig.tripleLayer
    /\ \E m \in ImportedMetatiles : \E i \in EmittedTiles(m) :
           decompiledTiles[i].attributes.layerType = "COVERED"
    /\ \E m \in ImportedMetatiles : \E i \in EmittedTiles(m) :
           /\ decompiledTiles[i].attributes.layerType = "SPLIT"
           /\ ~\E st \in Subtiles : SubtileHasContent(bottom, m, st)
                                        /\ SubtileHasContent(top, m, st)

\* C19: with triple-layer mode off, a dual-layer import of images of valid
\* dimensions has on record one error for every metatile it has been through
\* that has content on all three layers; it returns no DecompiledTileset when
\* there is such a metatile, and when it aborts for them it has been through
\* every metatile.
C19_AllThreeLayersAborts ==
    (ImportStarted /\ ~ctx.compilerConfig.tripleLayer) =>
        /\ ctx.err.errCount = Cardinality(AllThreeLayers(ImportedMetatiles))
        /\ pc = "imported" => AllThreeLayers(0..(NumMetatiles - 1)) = {}
        /\ pc = "failed" =>
               /\ metatileIndex = NumMetatiles
               /\ AllThreeLayers(0..(NumMetatiles - 1)) # {}

\* C19 witness: a dual-layer import aborted at its end with two errors on record
C19_Witness ==
    /\ pc = "failed"
    /\ err = "errors generated during layered tile import"
    /\ ~ctx.compilerConfig.tripleLayer
    /\ metatileIndex = NumMetatiles
    /\ ctx.err.errCount = 2
    /\ Cardinality(AllThreeLayers(0..(NumMetatiles - 1))) = 2

\* the layer image a dual-layer metatile of that type leaves out
OmittedLayer(layerType) ==
    CASE layerType = "NORMAL" -> bottom
      [] layerType = "COVERED" -> top
      [] layerType = "SPLIT" -> middle

\* the two layers a dual-layer metatile of that type keeps, lower layer first
KeptLayers(layerType) ==
    CASE layerType = "NORMAL" -> <<"MIDDLE", "TOP">>
      [] layerType = "COVERED" -> <<"BOTTOM", "MIDDLE">>
      [] layerType = "SPLIT" -> <<"BOTTOM", "TOP">>

\* the image of that layer
PngOfLayer(layer) ==
    CASE layer = "BOTTOM" -> bottom
      [] layer = "MIDDLE" -> middle
      [] layer = "TOP" -> top

\* C29: with triple-layer mode off, every metatile the import has been through,
\* other than one with content on all three layers, has the layer its type
\* leaves out (bottom for NORMAL, top for COVERED, middle for SPLIT) transparent
\* at all four subtile positions, and has emitted exactly 8 tiles, one after
\* the other: the four subtiles of the lower kept layer in subtile order, then
\* the four of the upper kept layer.
C29_OmittedLayerTransparent ==
    (ImportStarted /\ ~ctx.compilerConfig.tripleLayer) =>
        \A m \in ImportedMetatiles :
            LayerBits(m) # <<TRUE, TRUE, TRUE>> =>
                LET layerType == LayerTypeOfBits(LayerBits(m))
                    numSubtiles == Cardinality(Subtiles)
                    first == CHOOSE i \in EmittedTiles(m) : \A j \in EmittedTiles(m) : i <= j
                IN  /\ \A st \in Subtiles : ~SubtileHasContent(OmittedLayer(layerType), m, st)
                    /\ Cardinality(EmittedTiles(m)) = 8
                    /\ EmittedTiles(m) = first..(first + 7)
                    /\ \A k \in 0..7 :
                           /\ decompiledTiles[first + k].layer
                                  = KeptLayers(layerType)[(k \div numSubtiles) + 1]
                           /\ decompiledTiles[first + k].subtile = k % numSubtiles
                           /\ SubtileHasContent(PngOfLayer(decompiledTiles[first + k].layer), m,
                                                k % numSubtiles)
                                  <=> ~RGBATileTransparent(decompiledTiles[first + k],
                                                           ctx.compilerConfig.transparencyColor)

\* C29 witness: a returned dual-layer import with a SPLIT metatile and a NORMAL
\* metatile that holds content on both of its kept layers
C29_Witness ==
    /\ pc = "imported"
    /\ ~ctx.compilerConfig.tripleLayer
    /\ \E m \in ImportedMetatiles : LayerBits(m) = <<TRUE, FALSE, TRUE>>
    /\ \E m \in ImportedMetatiles : LayerBits(m) = <<FALSE, TRUE, TRUE>>

\* parseCompile has configured the warnings of the command line
Configured ==
    pc = "parsed"
        \/ (pc = "failed"
              /\ err = "Errors generated during command line parsing. Compilation terminated.")

IsGeneralOption(o) == o \in GeneralOptions

IsSpecificOption(o) == o \in SpecificOptions

\* the warning variables after the options of args from position i on
RECURSIVE FoldOptions(_, _, _)
FoldOptions(opts, args, i) ==
    IF i > Len(args) THEN opts
    ELSE FoldOptions(HandleOption(opts, args[i]).options, args, i + 1)

\* the warning modes
Modes(errs) == [f \in WarningNames |-> errs[f]]

\* the warning modes parseCompile gives the command line args
ParseWarnings(args) ==
    Modes(ConfigureWarnings(ErrorsAndWarnings, FoldOptions(WarningOptionsInit, args, 1)))

\* the positions of the options of args among candidates, and the last of them
Positions(args, candidates) == {i \in 1..Len(args) : args[i] \in candidates}

LastOf(args, candidates) ==
    LET at == Positions(args, candidates)
    IN  IF at = {} THEN Option("none", NULL)
        ELSE args[CHOOSE i \in at : \A j \in at : j <= i]

\* C21: the warning modes after option parsing are those of the command line
\* with its general options (-Wall, -Wnone, -Werror) moved before, or after,
\* all its per-warning options; and a per-warning setting holds against the
\* general ones wherever they stand: a warning whose right-most -W specifier
\* enables it is not OFF, and one set by -Werror=<name> is ERR.
C21_SpecificOverridesGeneral ==
    Configured =>
        LET general == SelectSeq(argv, IsGeneralOption)
            specific == SelectSeq(argv, IsSpecificOption)
        IN  /\ Modes(ctx.err) = ParseWarnings(general \o specific)
            /\ Modes(ctx.err) = ParseWarnings(specific \o general)
            /\ LastOf(argv, {Option("W_COLOR_PRECISION_LOSS_VAL", NULL),
                             Option("W_NO_COLOR_PRECISION_LOSS_VAL", NULL)})
                   = Option("W_COLOR_PRECISION_LOSS_VAL", NULL)
                 => ctx.err.colorPrecisionLoss # "OFF"
            /\ LastOf(argv, {Option("WERROR_VAL", WARN_COLOR_PRECISION_LOSS),
                             Option("WNO_ERROR_VAL", WARN_COLOR_PRECISION_LOSS)})
                   = Option("WERROR_VAL", WARN_COLOR_PRECISION_LOSS)
                 => ctx.err.colorPrecisionLoss = "ERR"
            /\ Positions(argv, {Option("WERROR_VAL", WARN_USED_TRUE_COLOR_MODE)}) # {}
                 => ctx.err.usedTrueColorMode = "ERR"

\* C21 witness: a parsed command line with -Wnone right of the option that
\* enables a warning, the warning at WARN
C21_Witness ==
    /\ pc = "parsed"
    /\ \E i \in 1..Len(argv), j \in 1..Len(argv) :
           /\ i < j
           /\ argv[i] = Option("W_COLOR_PRECISION_LOSS_VAL", NULL)
           /\ argv[j] = Option("WNONE_VAL", NULL)
    /\ ctx.err.colorPrecisionLoss = "WARN"

\* the right-most -W<WARNING> / -Wno-<WARNING> specifier of color-precision-loss
RightMostSpecifier ==
    LastOf(argv, {Option("W_COLOR_PRECISION_LOSS_VAL", NULL),
                  Option("W_NO_COLOR_PRECISION_LOSS_VAL", NULL)})

\* C22: after option parsing, a warning whose right-most -W<WARNING> /
\* -Wno-<WARNING> specifier is the 'no' form is OFF, also with -Wall on the
\* command line (no -Werror=<WARNING> asking for it), and one whose right-most
\* specifier is the plain form is not OFF.
C22_RightMostSpecifierWins ==
    Configured =>
        /\ (RightMostSpecifier = Option("W_NO_COLOR_PRECISION_LOSS_VAL", NULL)
              /\ Positions(argv, {Option("WERROR_VAL", WARN_COLOR_PRECISION_LOSS)}) = {})
             => ctx.err.colorPrecisionLoss = "OFF"
        /\ RightMostSpecifier = Option("W_COLOR_PRECISION_LOSS_VAL", NULL)
             => ctx.err.colorPrecisionLoss # "OFF"

\* C22, without -Wall: the 'no' form leaves a warning OFF when no general
\* option enables the warnings
C22_NoFormWithoutWall ==
    (Configured /\ Positions(argv, {Option("WALL_VAL", NULL)}) = {}) =>
        /\ (RightMostSpecifier = Option("W_NO_COLOR_PRECISION_LOSS_VAL", NULL)
              /\ Positions(argv, {Option("WERROR_VAL", WARN_COLOR_PRECISION_LOSS)}) = {})
             => ctx.err.colorPrecisionLoss = "OFF"
        /\ RightMostSpecifier = Option("W_COLOR_PRECISION_LOSS_VAL", NULL)
             => ctx.err.colorPrecisionLoss # "OFF"

\* the color index map the stage is seeded from
PrimaryColorIndexMap == IF Secondary THEN PairedPrimaryTiles.colorIndexMap ELSE EmptyMap

\* the position, in the normalized tiles, of the first tile with the color set
FirstTileWith(colorSet) ==
    CHOOSE k \in 1..Len(indexedNormTilesWithColorSets) :
        /\ indexedNormTilesWithColorSets[k].colorSet = colorSet
        /\ \A j \in 1..(k - 1) : indexedNormTilesWithColorSets[j].colorSet # colorSet

\* C23: what the color index stage leaves does not depend on the order in which
\* the companion primary's colorIndexMap gives its colors: in every order the
\* stage fails alike, or gives the forward and backward index the compile
\* holds; the CompiledTileset carries that forward index, and the color sets
\* come in the order of the tiles that first show them, once each.
C23_IterationOrderIndependent ==
    /\ ColorIndexReturned =>
           \A order \in IterationOrders(PrimaryColorIndexMap) :
               LET r == buildColorIndexMaps(ctx, indexedNormTiles, PrimaryColorIndexMap, order)
               IN  IF pc = "failed" /\ err = "too many unique colors"
                   THEN r.err = err
                   ELSE /\ r.err = ""
                        /\ r.colorIndexes = colorToIndex
                        /\ r.indexesToColors = indexToColor
    /\ (ColorIndexReturned /\ pc # "failed") => compiled.colorIndexMap = colorToIndex
    /\ colorSets # <<>> =>
           /\ \A i \in 1..Len(colorSets) :
                  \E k \in 1..Len(indexedNormTilesWithColorSets) :
                      indexedNormTilesWithColorSets[k].colorSet = colorSets[i]
           /\ \A i \in 1..Len(colorSets), j \in 1..Len(colorSets) :
                  i < j => /\ colorSets[i] # colorSets[j]
                           /\ FirstTileWith(colorSets[i]) < FirstTileWith(colorSets[j])

\* C23 witness: a returned secondary compile seeded from a primary index of
\* two colors or more, to which it has added a color
C23_Witness ==
    /\ Returned
    /\ Secondary
    /\ Cardinality(DOMAIN PrimaryColorIndexMap) >= 2
    /\ Cardinality(DOMAIN colorToIndex) > Cardinality(DOMAIN PrimaryColorIndexMap)

\* the root call of assign as a process that has compiled nothing would make it
FreshAssign == assign(ctx.compilerConfig.maxRecurseCount, state, primaryPaletteColorSets, 0)

\* C24: the root call of assign counts from zero whatever was compiled before:
\* once assign has returned, in a primary compile or in the secondary compile
\* that follows it, gRecurseCount and the outcome (a solution, 'failed to
\* allocate palettes', 'too many assignment recurses') are those of the same
\* call in a process that has compiled nothing.
C24_RecurseCountReset ==
    AssignReturned =>
        /\ gRecurseCount = FreshAssign.gRecurseCount
        /\ (pc = "failed" /\ err = "too many assignment recurses")
               <=> FreshAssign.err = "too many assignment recurses"
        /\ (pc = "failed" /\ err = "failed to allocate palettes")
               <=> (FreshAssign.err = "" /\ ~FreshAssign.ret)
        /\ pc \in {"palettes", "tiles", "done"} =>
               (FreshAssign.ret /\ assignedPalsSolution = FreshAssign.solution)

\* C24 witness: assign has returned in a secondary compile, after the assign
\* of the primary compile before it, with recursions of its own counted
C24_Witness ==
    /\ AssignReturned
    /\ Secondary
    /\ pc = "palettes"
    /\ gRecurseCount >= 3

\* the solution is an assignment: one color set for each hardware palette, of
\* at most PAL_SIZE - 1 colors, and every color set of U inside a palette of
\* the solution or inside a primary palette
SolutionCovers ==
    /\ Len(assignedPalsSolution) = Len(state.hardwarePalettes)
    /\ \A p \in 1..Len(assignedPalsSolution) : count(assignedPalsSolution[p]) <= PAL_SIZE - 1
    /\ \A j \in 1..Len(state.unassigned) :
           \/ \E p \in 1..Len(assignedPalsSolution) :
                  state.unassigned[j] \subseteq assignedPalsSolution[p]
           \/ \E k \in 1..Len(primaryPaletteColorSets) :
                  state.unassigned[j] \subseteq primaryPaletteColorSets[k]

ColorSetsOfU == {state.unassigned[j] : j \in 1..Len(state.unassigned)}

\* the color sets of U inside a primary palette
InPrimaryPalette ==
    {cs \in ColorSetsOfU :
        \E k \in 1..Len(primaryPaletteColorSets) : cs \subseteq primaryPaletteColorSets[k]}

\* C26: in secondary mode the color sets inside a primary palette leave the
\* hardware palettes as they are: in every solution assign returns, each
\* hardware palette is the union of color sets of U that are inside no
\* primary palette.
C26_PrimaryReuseLeavesHardware ==
    (pc = "palettes" /\ ctx.compilerConfig.mode = "SECONDARY")
    => \A p \in 1..Len(assignedPalsSolution) :
           \E placed \in SUBSET (ColorSetsOfU \ InPrimaryPalette) :
               assignedPalsSolution[p] = UNION placed

\* C26 witness: a secondary solution for color sets of both kinds, one of those
\* inside a primary palette having a color that no hardware palette received
C26_Witness ==
    /\ pc = "palettes"
    /\ ctx.compilerConfig.mode = "SECONDARY"
    /\ ColorSetsOfU \ InPrimaryPalette # {}
    /\ \E cs \in InPrimaryPalette :
           \E c \in cs : \A p \in 1..Len(assignedPalsSolution) : c \notin assignedPalsSolution[p]

\* palette i of pals stands before palette j in the order of the
\* extend-hardware branch: the larger intersection with toAssign first, then
\* the smaller palette, then the one that stood first
TriedBefore(pals, toAssign, i, j) ==
    LET iIntersect == Cardinality(pals[i] \cap toAssign)
        jIntersect == Cardinality(pals[j] \cap toAssign)
    IN  \/ iIntersect > jIntersect
        \/ iIntersect = jIntersect /\ Cardinality(pals[i]) < Cardinality(pals[j])
        \/ iIntersect = jIntersect /\ Cardinality(pals[i]) = Cardinality(pals[j]) /\ i < j

\* the hardware palettes in that order
TryOrder(pals, toAssign) ==
    LET perm == CHOOSE f \in [1..Len(pals) -> 1..Len(pals)] :
                    \A a \in 1..Len(pals), b \in 1..Len(pals) :
                        a < b => TriedBefore(pals, toAssign, f[a], f[b])
    IN  [a \in 1..Len(pals) |-> pals[perm[a]]]

\* the search as the order describes it, the recursion limit left aside: a
\* primary palette that holds toAssign takes it when the rest can be placed;
\* otherwise the first palette in the order that stays within PAL_SIZE - 1
\* colors, and behind which the rest can be placed, takes it
RECURSIVE FirstFit(_, _, _)
FirstFit(pals, unassigned, primaryPalettes) ==
    IF unassigned = <<>> THEN [ret |-> TRUE, solution |-> pals]
    ELSE LET toAssign == unassigned[Len(unassigned)]
             rest     == SubSeq(unassigned, 1, Len(unassigned) - 1)
             reuse    == FirstFit(pals, rest, primaryPalettes)
             ordered  == TryOrder(pals, toAssign)
             Through(a) == FirstFit([ordered EXCEPT ![a] = @ \cup toAssign], rest,
                                    primaryPalettes)
             fits     == {a \in 1..Len(ordered) :
                             /\ Cardinality(ordered[a] \cup toAssign) <= PAL_SIZE - 1
                             /\ Through(a).ret}
         IN  IF /\ \E k \in 1..Len(primaryPalettes) : toAssign \subseteq primaryPalettes[k]
                /\ reuse.ret
             THEN reuse
             ELSE IF fits = {} THEN [ret |-> FALSE, solution |-> <<>>]
             ELSE Through(CHOOSE a \in fits : \A b \in fits : a <= b)

\* C27: the extend-hardware branch tries the hardware palettes by the size of
\* their intersection with the to-assign color set (larger first), then by
\* their own size (smaller first), in a stable order; it skips the palettes
\* that would hold more than PAL_SIZE - 1 colors and returns the solution
\* reached through the first palette in the order whose recursion succeeds.
C27_TriesPalettesInOrder ==
    (AssignReturned /\ ~(pc = "failed" /\ err = "too many assignment recurses"))
    => LET expected == FirstFit([p \in 1..Len(state.hardwarePalettes) |-> {}],
                                state.unassigned, primaryPaletteColorSets)
       IN  IF expected.ret
           THEN pc # "failed" /\ assignedPalsSolution = expected.solution
           ELSE pc = "failed"

\* C27 witness: a solution whose first palette is not the one that took the
\* first color set assigned, for color sets of which two share a color and
\* are too many colors for one palette
C27_Witness ==
    /\ pc = "palettes"
    /\ Len(assignedPalsSolution) >= 2
    /\ state.unassigned # <<>>
    /\ ~(state.unassigned[Len(state.unassigned)] \subseteq assignedPalsSolution[1])
    /\ \E i \in 1..Len(state.unassigned), j \in 1..Len(state.unassigned) :
           /\ state.unassigned[i] \cap state.unassigned[j] # {}
           /\ Cardinality(state.unassigned[i] \cup state.unassigned[j]) > PAL_SIZE - 1

\* the color sets in the order the invocations of assign chose them as
\* toAssign, along the search path that reached the solution
PlacedOrder == FreshAssign.placed

\* C28 as stated: a color set with a larger count is never chosen as toAssign
\* before a color set with a smaller count.
C28_HeavyPlacedLast ==
    pc = "palettes"
    => LET order == PlacedOrder
       IN  \A i \in 1..Len(order), j \in 1..Len(order) :
               i < j => ~(count(order[i]) > count(order[j]))

\* C28: the color sets are chosen as toAssign from the back of unassigned,
\* which is sorted ascending by count: every color set of U is chosen once,
\* the last of the vector first, and a color set with a smaller count is
\* never chosen before a color set with a larger count.
C28_HeavyPlacedFirst ==
    pc = "palettes"
    => LET order == PlacedOrder
       IN  /\ Len(order) = Len(state.unassigned)
           /\ \A i \in 1..Len(order) :
                  order[i] = state.unassigned[Len(state.unassigned) + 1 - i]
           /\ \A i \in 1..Len(order), j \in 1..Len(order) :
                  i < j => count(order[i]) >= count(order[j])

\* C28 witness: a solution for color sets of different counts
C28_Witness ==
    /\ pc = "palettes"
    /\ LET order == PlacedOrder
       IN  \E i \in 1..Len(order), j \in 1..Len(order) :
               count(order[i]) > count(order[j])

\* the input holds more metatiles than a primary tileset may
OverMetatileLimit ==
    Len(decompiledTileset) \div ctx.fieldmapConfig.numTilesPerMetatile
        > ctx.fieldmapConfig.numMetatilesInPrimary

\* the colors of the pixels of a source tile that are not transparent
OpaqueColors(tile) ==
    {rgbaToBgr(tile[i]) : i \in {j \in 0..(TILE_NUM_PIX - 1) : ~SourceTransparent(tile[j])}}

\* the input holds a tile that normalize does not take: a pixel that is
\* neither transparent nor opaque, or more colors than a palette holds
OverTileLimit ==
    \E k \in 1..Len(decompiledTileset) :
        \/ \E i \in 0..(TILE_NUM_PIX - 1) :
               /\ ~SourceTransparent(decompiledTileset[k][i])
               /\ decompiledTileset[k][i].alpha # ALPHA_OPAQUE
        \/ Cardinality(OpaqueColors(decompiledTileset[k])) > PAL_SIZE - 1

\* the input holds more colors than the palettes of a primary tileset
OverColorLimit ==
    Cardinality(UNION {OpaqueColors(decompiledTileset[k]) : k \in 1..Len(decompiledTileset)})
        > (PAL_SIZE - 1) * ctx.fieldmapConfig.numPalettesInPrimary

\* no stage from the color index on has run
ColorIndexNotRun ==
    /\ colorToIndex = EmptyMap
    /\ indexToColor = EmptyMap
    /\ compiled.colorIndexMap = EmptyMap

\* no stage from the color sets on has run
AssignNotRun ==
    /\ indexedNormTilesWithColorSets = <<>>
    /\ colorSets = <<>>
    /\ state = [hardwarePalettes |-> <<>>, unassigned |-> <<>>]
    /\ gRecurseCount = 0

\* no stage after assign has run
TilesNotAssigned ==
    /\ assignedPalsSolution = <<>>
    /\ compiled.tiles = <<>>
    /\ \A p \in 1..Len(compiled.palettes) : compiled.palettes[p] = GBAPaletteDefault

\* C30: a primary compile that has ended has stopped at the first stage, in
\* the order metatile count, normalize, color index, palette assignment, tile
\* assignment, whose limit the input is over: it has failed with the error of
\* that stage, the locals of the later stages are as they were before the
\* call, and nothing is returned (a CompiledTileset is returned only when no
\* stage has failed).
C30_FailFast ==
    (pc \in {"failed", "done"} /\ ctx.compilerConfig.mode = "PRIMARY") =>
        /\ pc = "done" => err = ""
        /\ IF OverMetatileLimit
           THEN /\ pc = "failed"
                /\ err = "input metatile count exceeded metatile limit"
                /\ indexedNormTiles = <<>>
                /\ ColorIndexNotRun /\ AssignNotRun /\ TilesNotAssigned
           ELSE IF OverTileLimit
           THEN /\ pc = "failed"
                /\ err \in {"invalid alpha value", "too many unique colors in tile"}
                /\ indexedNormTiles = <<>>
                /\ ColorIndexNotRun /\ AssignNotRun /\ TilesNotAssigned
           ELSE IF OverColorLimit
           THEN /\ pc = "failed"
                /\ err = "too many unique colors"
                /\ indexedNormTiles # <<>>
                /\ ColorIndexNotRun /\ AssignNotRun /\ TilesNotAssigned
           ELSE IF Uncoverable
           THEN /\ pc = "failed"
                /\ err \in {"failed to allocate palettes", "too many assignment recurses"}
                /\ TilesNotAssigned
           ELSE pc = "failed" => (err = "too many tiles" /\ assignedPalsSolution # <<>>)

\* C30 witness: a compile stopped at the metatile count for an input that is
\* also over the limits of normalize and of the color index
C30_Witness ==
    /\ pc = "failed"
    /\ err = "input metatile count exceeded metatile limit"
    /\ OverMetatileLimit /\ OverTileLimit /\ OverColorLimit
====
